---- MODULE Spec2Model ----
(***************************************************************************)
(* Model of the Link broker's request pipeline as documented in the        *)
(* repository: request authentication (verifyApiKey / verifySignature),    *)
(* the OAuth callback (validateOAuthState and the token exchange), the     *)
(* token refresh logic (getValidToken) and the command router (execute).   *)
(***************************************************************************)
EXTENDS Integers, Sequences, FiniteSets, TLC

(***************************************************************************)
(* Bounds of the model                                                     *)
(***************************************************************************)
T0 == 1000
MaxNow == 1800
REPLAY_DELAY == 400
NCallbacks == 2
NDispatches == 2

(***************************************************************************)
(* Program constants                                                       *)
(***************************************************************************)
TIMESTAMP_WINDOW == 300
HEX_DIGEST_LENGTH == 64
STATE_TTL == 600
EXPIRES_IN == 3600
REFRESH_BUFFER == 300

VARIABLES
    now,                \* the server's wall clock, in seconds (Date.now()/1000)
    project_api_keys,   \* table project_api_keys, keyed by public_key
    req,                \* the request being processed by the middleware chain
    authPc,             \* position of the request in the middleware chain
    authErr,            \* error handed to next(err), "none" if none
    reqProject,         \* req.project, "none" until verifyApiKey attaches it
    nowLocal,           \* verifySignature's local `now`
    payload,            \* verifySignature's local `payload`
    replayed,           \* TRUE when req is a resubmission of an accepted request
    lastUsedBefore      \* last_used_at of every key when req entered the chain

authVars == <<project_api_keys, req, authPc, authErr, reqProject, nowLocal,
              payload, replayed, lastUsedBefore>>

VARIABLES
    oauth_states,           \* table oauth_states, keyed by state_token
    provider_connections,   \* table provider_connections, keyed by the unique
                            \* (project_id, provider_id, end_user_id) triple
    redeemed,               \* authorization codes the provider has exchanged
    issued,                 \* number of access tokens the provider has issued
    cbPc,                   \* position of each callback delivery
    cbState,                \* its `state` query parameter
    cbCode,                 \* its `code` query parameter
    stateRecord,            \* its local stateRecord (result of findByToken)
    cbTokens,               \* its local token set (result of exchangeCode)
    cbResult                \* its final redirect

cbVars == <<cbPc, cbState, cbCode, stateRecord, cbTokens, cbResult>>
oauthVars == <<oauth_states, redeemed, cbVars>>

storeVars == <<provider_connections, issued>>

VARIABLES
    dPc,            \* position of each dispatch (execute and getValidToken)
    dProject,       \* req.project of the request that asked for the dispatch
    dConn,          \* its connectionId
    connection,     \* getValidToken's local `connection` (the row it read)
    dTokens,        \* the token set getValidToken hands to execute
    dError,         \* the provider's answer to its refresh call, if it failed
    dResult,        \* what the caller of the dispatch receives
    dStatusRead,    \* the status of the row when getValidToken read it
    dTokenRead,     \* the stored access token when getValidToken read it
    dRefreshCalls,  \* calls it made to the provider's token endpoint
    dAdapterCalls,  \* calls it made to the adapter's verb
    dCall,          \* the provider's answer to the verb and the error
                    \* execute's catch block holds
    webhook_events, \* events handed to triggerWebhook (each tagged with the
                    \* dispatch that raised it)
    api_logs        \* table api_logs (each row tagged with its dispatch)

dVars == <<dPc, dProject, dConn, connection, dTokens, dError, dResult, dStatusRead,
           dTokenRead, dRefreshCalls, dAdapterCalls, dCall>>
tokenVars == <<dVars, webhook_events, api_logs>>

VARIABLES
    appReq,         \* the request the server of index.ts is handling
    appPc,          \* its position: idle, routing, responded
    appRes          \* the response sent for it

appVars == <<appReq, appPc, appRes>>

VARIABLES
    webhooks,       \* table webhooks (the subscriptions), keyed by id
    hookEvents,     \* the lifecycle events emitted so far
    deliveries,     \* the persisted delivery row of each (event, subscription)
    webhookQueue    \* the in-process work queue of the webhook dispatcher

hookVars == <<webhooks, hookEvents, deliveries, webhookQueue>>

VARIABLES
    rateLimiter,    \* the limiter's storage: consumed points and expiry per key
    admitted,       \* per project, the requests let through now and one tick ago
    sent,           \* the requests the second project has sent
    rejected        \* per project, whether a request of it has been answered 429

rateVars == <<rateLimiter, admitted, sent, rejected>>

VARIABLES
    deleteRes       \* per project, the connection it asked to delete and the answer

delVars == <<deleteRes>>

VARIABLES
    stored,         \* the values encrypt has returned, in the order of the calls
    held,           \* a stored value as it is handed to decrypt
    heldFrom,       \* which stored value it was, and which part was altered
    decrypted,      \* what decrypt made of it
    keyVersion      \* which master key process.env.ENCRYPTION_KEY holds

cryptoVars == <<stored, held, heldFrom, decrypted, keyVersion>>

VARIABLES
    env,            \* process.env as the process was started with
    cfgPc,          \* where the start of the process stands
    config          \* the exported configuration object

cfgVars == <<env, cfgPc, config>>

VARIABLES
    errRes          \* the error response sent last

errVars == <<errRes>>

VARIABLES
    adapters,       \* ProviderRegistry.adapters: the adapter instance of each name
    regPc,          \* how many of the module's register calls have run
    lookups         \* the results of providerRegistry.get during request handling

regVars == <<adapters, regPc, lookups>>

VARIABLES
    connectReqs,    \* per state token, the POST /oauth/connect request it was made for
    stateRows,      \* per state token, the columns generateOAuthState stored
    landings        \* per state token, where the callback that consumed it ended

connVars == <<connectReqs, stateRows, landings>>

VARIABLES
    loaded,         \* LazyProviderRegistry.loaded: the adapter instance of each name
    loaderCalls,    \* how often the loader of each name has been invoked
    getPc,          \* where each call of LazyProviderRegistry.get stands
    getName,        \* its argument
    getAdapter      \* the adapter its loader made, then the adapter it returns

lazyVars == <<loaded, loaderCalls, getPc, getName, getAdapter>>

otherVars == <<appVars, hookVars, rateVars, delVars, cryptoVars, cfgVars, errVars,
               regVars, connVars, lazyVars>>

vars == <<now, authVars, oauthVars, storeVars, tokenVars, otherVars>>

\* What each component leaves alone.
NotAuth == <<oauthVars, storeVars, tokenVars, otherVars>>
NotOAuth == <<authVars, tokenVars, otherVars>>
NotToken == <<authVars, oauthVars, otherVars>>
NotApp == <<now, authVars, oauthVars, storeVars, tokenVars, hookVars, rateVars, delVars, cryptoVars, cfgVars, errVars,
    regVars, connVars, lazyVars>>
NotHook == <<now, authVars, oauthVars, storeVars, tokenVars, appVars, rateVars, delVars, cryptoVars, cfgVars, errVars,
    regVars, connVars, lazyVars>>
NotRate == <<authVars, oauthVars, storeVars, tokenVars, appVars, hookVars, delVars, cryptoVars, cfgVars,
    regVars, connVars, lazyVars>>
NotDelete == <<now, authVars, oauthVars, issued, tokenVars, appVars, hookVars, rateVars, cryptoVars, cfgVars, errVars,
    regVars, connVars, lazyVars>>
NotCrypto == <<now, authVars, oauthVars, storeVars, tokenVars, appVars, hookVars, rateVars, delVars, cfgVars, errVars,
    regVars, connVars, lazyVars>>
NotConfig == <<now, authVars, oauthVars, storeVars, tokenVars, appVars, hookVars, rateVars, delVars, cryptoVars, errVars,
    regVars, connVars, lazyVars>>
NotError == <<now, authVars, oauthVars, storeVars, tokenVars, appVars, hookVars, rateVars, delVars, cryptoVars, cfgVars,
    regVars, connVars, lazyVars>>
NotRegistry == <<now, authVars, oauthVars, storeVars, tokenVars, appVars, hookVars,
    rateVars, delVars, cryptoVars, cfgVars, errVars, connVars, lazyVars>>
NotConnect == <<now, authVars, oauthVars, storeVars, tokenVars, appVars, hookVars,
    rateVars, delVars, cryptoVars, cfgVars, errVars, regVars, lazyVars>>
NotLazy == <<now, authVars, oauthVars, storeVars, tokenVars, appVars, hookVars,
    rateVars, delVars, cryptoVars, cfgVars, errVars, regVars, connVars>>

(***************************************************************************)
(* Request authentication                                                  *)
(***************************************************************************)

PublicKeys == {"pk_A", "pk_B", "pk_B2"}
Secrets == {"sk_A", "sk_B", "sk_B2", "sk_wrong"}

SecretOf(pk) == CASE pk = "pk_A" -> "sk_A"
                  [] pk = "pk_B" -> "sk_B"
                  [] pk = "pk_B2" -> "sk_B2"
                  [] OTHER -> "sk_wrong"

Projects == {"proj_P", "proj_Q"}

ProjectOf(pk) == IF pk = "pk_A" THEN "proj_P" ELSE "proj_Q"

\* A header value of X-Link-Timestamp: an optional "-", a run of decimal
\* digits (digits = -1 when there is none) and optional trailing non-digits.
Dec(v) == [sign |-> FALSE, digits |-> v, junk |-> FALSE]
NoTimestamp == [sign |-> FALSE, digits |-> -1, junk |-> FALSE]

IsUnsignedDecimal(ts) == ~ts.sign /\ ts.digits >= 0 /\ ~ts.junk

\* parseInt: the leading signed run of digits, NaN when there is none.
parseInt(ts) ==
    IF ts.digits < 0 THEN [nan |-> TRUE, v |-> 0]
    ELSE [nan |-> FALSE, v |-> IF ts.sign THEN 0 - ts.digits ELSE ts.digits]

Abs(x) == IF x < 0 THEN 0 - x ELSE x

\* Math.abs(now - parseInt(timestamp)) > 300 ; any comparison with NaN is false.
TimestampTooOld(n, ts) ==
    LET p == parseInt(ts) IN
    IF p.nan THEN FALSE ELSE Abs(n - p.v) > TIMESTAMP_WINDOW

\* Raw request bodies, as sequences of characters.
RawBodies == { <<>>,
               <<"{", "x", ":", "1", "}">>,
               <<"{", " ", "x", ":", " ", "1", "}">> }

IsSpace(c) == c = " "

\* express.json(): the parsed body; an empty body gives the empty object.
\* The parsed value is represented by its tokens, whitespace dropped.
ExpressJson(raw) ==
    IF raw = <<>> THEN <<"{", "}">>
    ELSE SelectSeq(raw, LAMBDA c : ~IsSpace(c))

\* JSON.stringify of a parsed value: its tokens without whitespace.
JSONStringify(parsed) == parsed

\* `${timestamp}.${body}`
Payload(ts, body) == [ts |-> ts, body |-> body]

\* crypto.createHmac('sha256', secret).update(payload).digest('hex'):
\* an ideal MAC, 64 hex characters long.
Hmac(secret, p) == [k |-> secret, p |-> p, len |-> HEX_DIGEST_LENGTH]

NoSignature == [k |-> "none", p |-> Payload(NoTimestamp, <<>>), len |-> 0]
ShortSignature == [k |-> "none", p |-> Payload(NoTimestamp, <<>>), len |-> 10]

\* decrypt(apiKey.secret_key_encrypted)
EncryptSecret(s) == <<"enc", s>>
decrypt(c) == c[2]

TimestampHeaders(n) ==
    { Dec(v) : v \in {n - TIMESTAMP_WINDOW - 1, n - TIMESTAMP_WINDOW, n,
                      n + TIMESTAMP_WINDOW, n + TIMESTAMP_WINDOW + 1} }
    \cup { NoTimestamp,
           [sign |-> FALSE, digits |-> n, junk |-> TRUE],
           [sign |-> FALSE, digits |-> -1, junk |-> TRUE],
           [sign |-> TRUE, digits |-> n, junk |-> FALSE] }

\* The signatures a client can send along with key pk, timestamp ts and body b: an
\* HMAC under some secret over the raw body or over its re-serialized form,
\* a value of another length, or none.
SignaturesFor(pk, ts, b) ==
    { Hmac(k, Payload(ts, b2)) :
        k \in {SecretOf(pk), "sk_wrong"},
        b2 \in {b, JSONStringify(ExpressJson(b))} }
    \cup {NoSignature, ShortSignature}

\* The requests a client can put on the wire at time n.
Requests(n) ==
    UNION { { [publicKey |-> pk, timestamp |-> ts, rawBody |-> b, signature |-> s] :
                s \in SignaturesFor(pk, ts, b) } :
            pk \in {"pk_A", "pk_B", "pk_unknown", ""},
            ts \in TimestampHeaders(n), b \in RawBodies }

NoRequest == [publicKey |-> "", timestamp |-> NoTimestamp, rawBody |-> <<>>,
              signature |-> NoSignature]

NoKey == [status |-> "absent", project_id |-> "none",
          secret_key_encrypted |-> EncryptSecret("none"), last_used_at |-> -1]

InitAuth ==
    /\ project_api_keys =
         [pk \in PublicKeys |->
            IF pk = "pk_B2" THEN NoKey
            ELSE [status |-> "active", project_id |-> ProjectOf(pk),
                  secret_key_encrypted |-> EncryptSecret(SecretOf(pk)),
                  last_used_at |-> -1]]
    /\ req = NoRequest
    /\ authPc = "idle"
    /\ authErr = "none"
    /\ reqProject = "none"
    /\ nowLocal = 0
    /\ payload = Payload(NoTimestamp, <<>>)
    /\ replayed = FALSE
    /\ lastUsedBefore = [pk \in PublicKeys |-> -1]

\* A request arrives and enters the middleware chain.
Submit(r) ==
    /\ authPc = "idle"
    /\ req' = r
    /\ authPc' = "verifyApiKey"
    /\ replayed' = FALSE
    /\ lastUsedBefore' = [pk \in PublicKeys |-> project_api_keys[pk].last_used_at]
    /\ UNCHANGED <<now, project_api_keys, authErr, reqProject, nowLocal, payload>>
    /\ UNCHANGED NotAuth

\* A request that was accepted is put on the wire again, byte for byte.
Replay ==
    /\ authPc = "accepted"
    /\ authPc' = "verifyApiKey"
    /\ authErr' = "none"
    /\ reqProject' = "none"
    /\ nowLocal' = 0
    /\ payload' = Payload(NoTimestamp, <<>>)
    /\ replayed' = TRUE
    /\ lastUsedBefore' = [pk \in PublicKeys |-> project_api_keys[pk].last_used_at]
    /\ UNCHANGED <<now, project_api_keys, req>>
    /\ UNCHANGED NotAuth

\* The response has been sent; the next request can be looked at.
Respond ==
    /\ authPc \in {"accepted", "rejected", "no_response"}
    /\ req' = NoRequest
    /\ authPc' = "idle"
    /\ authErr' = "none"
    /\ reqProject' = "none"
    /\ nowLocal' = 0
    /\ payload' = Payload(NoTimestamp, <<>>)
    /\ replayed' = FALSE
    /\ lastUsedBefore' = [pk \in PublicKeys |-> project_api_keys[pk].last_used_at]
    /\ UNCHANGED <<now, project_api_keys>>
    /\ UNCHANGED NotAuth

\* The lookup without its status filter.
FindActiveKey_AnyStatus(pk) ==
    pk \in PublicKeys /\ project_api_keys[pk].status # "absent"

\* .eq('public_key', publicKey).eq('status', 'active').single()
FindActiveKey(pk) ==
    pk \in PublicKeys /\ project_api_keys[pk].status = "active"

verifyApiKey ==
    /\ authPc = "verifyApiKey"
    /\ IF req.publicKey = "" \/ ~FindActiveKey(req.publicKey)
       THEN /\ authPc' = "rejected"
            /\ authErr' = "INVALID_API_KEY"
            /\ UNCHANGED <<project_api_keys, reqProject>>
       ELSE /\ reqProject' = project_api_keys[req.publicKey].project_id
            /\ project_api_keys' =
                 [project_api_keys EXCEPT ![req.publicKey].last_used_at = now]
            /\ authPc' = "verifySignature"
            /\ UNCHANGED authErr
    /\ UNCHANGED <<now, req, nowLocal, payload, replayed, lastUsedBefore>>
    /\ UNCHANGED NotAuth

\* crypto.timingSafeEqual: throws when the two buffers differ in length.
TimingSafeEqualThrows(a, b) == a.len # b.len
timingSafeEqual(a, b) == a = b

verifySignature ==
    /\ authPc = "verifySignature"
    /\ IF req.signature.len = 0 \/ req.timestamp = NoTimestamp
       THEN /\ authPc' = "rejected"
            /\ authErr' = "INVALID_SIGNATURE"
            /\ UNCHANGED <<nowLocal, payload, replayed>>
       ELSE IF TimestampTooOld(now, req.timestamp)
       THEN /\ authPc' = "rejected"
            /\ authErr' = "TIMESTAMP_EXPIRED"
            /\ nowLocal' = now
            /\ UNCHANGED <<payload, replayed>>
       ELSE LET secretKey == decrypt(project_api_keys[req.publicKey].secret_key_encrypted)
                pl == Payload(req.timestamp, JSONStringify(ExpressJson(req.rawBody)))
                expectedSignature == Hmac(secretKey, pl)
            IN /\ nowLocal' = now
               /\ payload' = pl
               /\ IF TimingSafeEqualThrows(req.signature, expectedSignature)
                  THEN /\ authPc' = "no_response"
                       /\ authErr' = "RangeError"
                  ELSE IF ~timingSafeEqual(req.signature, expectedSignature)
                  THEN /\ authPc' = "rejected"
                       /\ authErr' = "INVALID_SIGNATURE"
                  ELSE /\ authPc' = "accepted"
                       /\ authErr' = "none"
    /\ UNCHANGED <<now, project_api_keys, req, reqProject, replayed,
                   lastUsedBefore>>
    /\ UNCHANGED NotAuth

\* LinkError.statusCode of each error code; errorHandler answers any other
\* error with 500.
statusCode(code) ==
    CASE code \in {"INVALID_API_KEY", "INVALID_SIGNATURE", "TIMESTAMP_EXPIRED",
                   "CONNECTION_EXPIRED"} -> 401
      [] code = "FORBIDDEN" -> 403
      [] code = "NOT_FOUND" -> 404
      [] code = "RATE_LIMITED" -> 429
      [] code = "PROVIDER_ERROR" -> 502
      [] OTHER -> 500

\* rotateApiKey: a new active key is created and the old one revoked.
rotateApiKey ==
    /\ project_api_keys["pk_B"].status = "active"
    /\ project_api_keys' =
         [project_api_keys EXCEPT
            !["pk_B2"] = [status |-> "active", project_id |-> ProjectOf("pk_B"),
                          secret_key_encrypted |-> EncryptSecret(SecretOf("pk_B2")),
                          last_used_at |-> -1],
            !["pk_B"].status = "revoked"]
    /\ UNCHANGED <<now, req, authPc, authErr, reqProject, nowLocal, payload,
                   replayed, lastUsedBefore>>
    /\ UNCHANGED NotAuth

(***************************************************************************)
(* The store and the provider                                              *)
(***************************************************************************)

\* The (project_id, provider_id, end_user_id) triples of the model.  The
\* UNIQUE constraint of provider_connections makes the triple a key, so a
\* connection row is identified by its triple.
Triples == {"t1", "t2"}

TripleProject(t) == IF t = "t1" THEN "proj_P" ELSE "proj_Q"

NoToken == 0

\* encrypt / decrypt of a token column (the stored form is tagged).
encryptToken(t) == [enc |-> t]
decryptToken(c) == c.enc

encryptThrows_Never(t) == FALSE

\* encrypt(token) passes the token to cipher.update(plaintext, 'utf8',
\* 'hex'), a TypeError when the token is undefined.
encryptThrows(t) == t = NoToken

\* A refresh_token column that is NULL: the column is nullable, for a
\* provider that issued no refresh token.
NullColumn == [enc |-> -1]

\* decrypt(column) begins with column.split(':'), a TypeError on null.
decryptThrows(c) == c = NullColumn

NoConnection == [status |-> "absent", access_token |-> encryptToken(NoToken),
                 refresh_token |-> encryptToken(NoToken), expires_at |-> 0,
                 error_message |-> "none"]

(***************************************************************************)
(* OAuth: generateOAuthState, validateOAuthState and the callback          *)
(***************************************************************************)

StateTokens == {"S1", "S2"}
Codes == {"code1", "code2"}
Callbacks == 1..NCallbacks

NoState == [exists |-> FALSE, triple |-> "t1", expires_at |-> 0, used_at |-> -1]
NoTokens == [accessToken |-> NoToken, refreshToken |-> NoToken, expiresIn |-> 0]

InitOAuth ==
    /\ oauth_states = [t \in StateTokens |-> NoState]
    /\ redeemed = {}
    /\ cbPc = [c \in Callbacks |-> "start"]
    /\ cbState = [c \in Callbacks |-> "none"]
    /\ cbCode = [c \in Callbacks |-> "none"]
    /\ stateRecord = [c \in Callbacks |-> NoState]
    /\ cbTokens = [c \in Callbacks |-> NoTokens]
    /\ cbResult = [c \in Callbacks |-> "none"]

\* POST /oauth/connect: generateOAuthState stores a fresh state row.  The
\* tokens are random; the model hands them out in the order S1, S2.
generateOAuthState(tok, t) ==
    /\ ~oauth_states[tok].exists
    /\ tok = "S2" => oauth_states["S1"].exists
    /\ oauth_states' = [oauth_states EXCEPT ![tok] =
         [exists |-> TRUE, triple |-> t, expires_at |-> now + STATE_TTL,
          used_at |-> -1]]
    /\ UNCHANGED <<now, redeemed, cbVars, storeVars>>
    /\ UNCHANGED NotOAuth

\* GET /oauth/callback?code&state arrives; validateOAuthState reads the row
\* (findByToken) and checks the copy it read.  Deliveries are numbered in
\* their order of arrival.
findByToken(c, tok, code) ==
    /\ cbPc[c] = "start"
    /\ \A c0 \in Callbacks : c0 < c => cbPc[c0] # "start"
    /\ cbState' = [cbState EXCEPT ![c] = tok]
    /\ cbCode' = [cbCode EXCEPT ![c] = code]
    /\ LET rec == oauth_states[tok]
       IN IF ~rec.exists \/ rec.used_at # -1 \/ rec.expires_at < now
          THEN /\ cbPc' = [cbPc EXCEPT ![c] = "done"]
               /\ cbResult' = [cbResult EXCEPT ![c] = "INVALID_STATE"]
               /\ UNCHANGED stateRecord
          ELSE /\ cbPc' = [cbPc EXCEPT ![c] = "markUsed"]
               /\ stateRecord' = [stateRecord EXCEPT ![c] = rec]
               /\ UNCHANGED cbResult
    /\ UNCHANGED <<now, oauth_states, redeemed, cbTokens, storeVars>>
    /\ UNCHANGED NotOAuth

markUsed_Skip(c) ==
    /\ cbPc[c] = "markUsed"
    /\ cbPc' = [cbPc EXCEPT ![c] = "exchangeCode"]
    /\ UNCHANGED <<now, oauth_states, redeemed, cbState, cbCode, stateRecord,
                   cbTokens, cbResult, storeVars>>
    /\ UNCHANGED NotOAuth

\* db.oauthStates.markUsed(stateRecord.id): an update by id.
markUsed(c) ==
    /\ cbPc[c] = "markUsed"
    /\ oauth_states' = [oauth_states EXCEPT ![cbState[c]].used_at = now]
    /\ cbPc' = [cbPc EXCEPT ![c] = "exchangeCode"]
    /\ UNCHANGED <<now, redeemed, cbState, cbCode, stateRecord, cbTokens,
                   cbResult, storeVars>>
    /\ UNCHANGED NotOAuth

\* adapter.exchangeCode, get user info and encrypt the tokens.  The
\* provider redeems a code once, and may also refuse a code it has not
\* redeemed (refused).  The adapter returns whatever fields the response
\* body has, without looking at response.ok, so a refused exchange yields a
\* token set without tokens; with it the user-info call is refused and
\* encrypt throws, and the callback ends with an error redirect.
exchangeCode(c, refused) ==
    /\ cbPc[c] = "exchangeCode"
    /\ LET ok == ~refused /\ cbCode[c] \notin redeemed
           tokens == IF ok
                     THEN [accessToken |-> issued + 1, refreshToken |-> issued + 1,
                           expiresIn |-> EXPIRES_IN]
                     ELSE NoTokens
       IN /\ redeemed' = IF ok THEN redeemed \cup {cbCode[c]} ELSE redeemed
          /\ issued' = IF ok THEN issued + 1 ELSE issued
          /\ cbTokens' = [cbTokens EXCEPT ![c] = tokens]
          /\ IF encryptThrows(tokens.accessToken)
             THEN /\ stateRecord' = [stateRecord EXCEPT ![c] = NoState]
                  /\ cbPc' = [cbPc EXCEPT ![c] = "done"]
                  /\ cbResult' = [cbResult EXCEPT ![c] = "error"]
             ELSE /\ cbPc' = [cbPc EXCEPT ![c] = "createConnection"]
                  /\ UNCHANGED <<cbResult, stateRecord>>
    /\ UNCHANGED <<now, oauth_states, cbState, cbCode, provider_connections>>
    /\ UNCHANGED NotOAuth

\* Create (or, on re-connection, update) the provider_connections row of
\* the state's triple with the encrypted tokens.
createConnection(c) ==
    /\ cbPc[c] = "createConnection"
    /\ provider_connections' =
         [provider_connections EXCEPT ![stateRecord[c].triple] =
            [status |-> "active",
             access_token |-> encryptToken(cbTokens[c].accessToken),
             refresh_token |-> encryptToken(cbTokens[c].refreshToken),
             expires_at |-> now + cbTokens[c].expiresIn,
             error_message |-> "none"]]
    /\ cbPc' = [cbPc EXCEPT ![c] = "markStateUsed"]
    /\ UNCHANGED <<now, oauth_states, redeemed, cbState, cbCode, stateRecord,
                   cbTokens, cbResult, issued>>
    /\ UNCHANGED NotOAuth

\* Mark state as used, then redirect to the developer app with the
\* connection id.
markStateUsed(c) ==
    /\ cbPc[c] = "markStateUsed"
    /\ oauth_states' = [oauth_states EXCEPT ![cbState[c]].used_at = now]
    /\ cbPc' = [cbPc EXCEPT ![c] = "done"]
    /\ cbResult' = [cbResult EXCEPT ![c] = "success"]
    /\ stateRecord' = [stateRecord EXCEPT ![c] = NoState]
    /\ cbTokens' = [cbTokens EXCEPT ![c] = NoTokens]
    /\ UNCHANGED <<now, redeemed, cbState, cbCode, storeVars>>
    /\ UNCHANGED NotOAuth

\* Time passes until the moment a stored state row expires.
TickToExpiry(tok) ==
    /\ oauth_states[tok].exists
    /\ now < oauth_states[tok].expires_at
    /\ oauth_states[tok].expires_at <= MaxNow
    /\ now' = oauth_states[tok].expires_at
    /\ UNCHANGED <<authVars, oauthVars, storeVars, tokenVars, otherVars>>

InitStore ==
    /\ provider_connections = [t \in Triples |-> NoConnection]
    /\ issued = 0

(***************************************************************************)
(* Token refresh (getValidToken) and the command router (execute)          *)
(***************************************************************************)

Dispatches == 1..NDispatches

RefreshFailures == {"invalid_grant", "expired_token", "transient", "other_4xx"}

\* HTTP statuses the provider API answers an adapter verb with.
AdapterStatuses == {200, 401, 500}

NoRow == [status |-> "none", access_token |-> encryptToken(NoToken),
          refresh_token |-> encryptToken(NoToken), expires_at |-> 0]

NoCall == [status |-> 0, caught |-> "none"]

InitToken ==
    /\ dPc = [d \in Dispatches |-> "start"]
    /\ dProject = [d \in Dispatches |-> "none"]
    /\ dConn = [d \in Dispatches |-> "none"]
    /\ connection = [d \in Dispatches |-> NoRow]
    /\ dTokens = [d \in Dispatches |-> NoTokens]
    /\ dError = [d \in Dispatches |-> "none"]
    /\ dResult = [d \in Dispatches |-> "none"]
    /\ dStatusRead = [d \in Dispatches |-> "none"]
    /\ dTokenRead = [d \in Dispatches |-> NoToken]
    /\ dRefreshCalls = [d \in Dispatches |-> 0]
    /\ dAdapterCalls = [d \in Dispatches |-> 0]
    /\ dCall = [d \in Dispatches |-> NoCall]
    /\ webhook_events = {}
    /\ api_logs = {}

\* POST /v1/execute by project p; execute, steps 1 to 3:
\* connectionService.get(connectionId), which is given the id alone.
\* Dispatches are numbered in their order of arrival.
connectionGet(d, p, cid) ==
    /\ dPc[d] = "start"
    /\ \A d0 \in Dispatches : d0 < d => dPc[d0] # "start"
    /\ dProject' = [dProject EXCEPT ![d] = p]
    /\ dConn' = [dConn EXCEPT ![d] = cid]
    /\ IF provider_connections[cid].status = "absent"
       THEN /\ dPc' = [dPc EXCEPT ![d] = "done"]
            /\ dResult' = [dResult EXCEPT ![d] = "CONNECTION_NOT_FOUND"]
       ELSE /\ dPc' = [dPc EXCEPT ![d] = "getValidToken"]
            /\ UNCHANGED dResult
    /\ UNCHANGED <<now, connection, dTokens, dError, dStatusRead,
                   dTokenRead, dRefreshCalls, dAdapterCalls, dCall, webhook_events,
                   api_logs, storeVars>>
    /\ UNCHANGED NotToken

\* connection.expires_at && new Date(connection.expires_at) < now + 5 min
isExpired(row) == row.expires_at # 0 /\ row.expires_at < now + REFRESH_BUFFER

\* getValidToken up to its first provider call: read the row, decrypt both
\* token columns, and either return the stored tokens or send the refresh
\* request.  An error thrown by decrypt is caught by nothing in execute and
\* reaches the caller as INTERNAL_ERROR.
getValidToken(d) ==
    /\ dPc[d] = "getValidToken"
    /\ LET row == provider_connections[dConn[d]]
       IN /\ dStatusRead' = [dStatusRead EXCEPT ![d] = row.status]
          /\ dTokenRead' = [dTokenRead EXCEPT ![d] = decryptToken(row.access_token)]
          /\ IF decryptThrows(row.refresh_token)
             THEN /\ dResult' = [dResult EXCEPT ![d] = "INTERNAL_ERROR"]
                  /\ dPc' = [dPc EXCEPT ![d] = "done"]
                  /\ UNCHANGED <<connection, dRefreshCalls, dTokens>>
             ELSE IF ~isExpired(row)
             THEN /\ dTokens' = [dTokens EXCEPT ![d] =
                       [accessToken |-> decryptToken(row.access_token),
                        refreshToken |-> decryptToken(row.refresh_token),
                        expiresIn |-> 0]]
                  /\ dPc' = [dPc EXCEPT ![d] = "adapter"]
                  /\ UNCHANGED <<connection, dRefreshCalls, dResult>>
             ELSE /\ connection' = [connection EXCEPT ![d] =
                       [status |-> row.status, access_token |-> row.access_token,
                        refresh_token |-> row.refresh_token,
                        expires_at |-> row.expires_at]]
                  /\ dRefreshCalls' = [dRefreshCalls EXCEPT ![d] = @ + 1]
                  /\ dPc' = [dPc EXCEPT ![d] = "refreshing"]
                  /\ UNCHANGED <<dTokens, dResult>>
    /\ UNCHANGED <<now, dProject, dConn, dError, dAdapterCalls, dCall, webhook_events,
                   api_logs, storeVars>>
    /\ UNCHANGED NotToken

\* The provider answers the refresh call: new tokens (with or without a
\* rotated refresh token), or one of the failures.  A failure is thrown, or
\* comes back as a token set without tokens (the adapter's refreshToken is
\* like exchangeCode, which does not look at response.ok).
refreshAccessToken(d, answer, rotated) ==
    /\ dPc[d] = "refreshing"
    /\ IF answer = "ok"
       THEN /\ issued' = issued + 1
            /\ dTokens' = [dTokens EXCEPT ![d] =
                 [accessToken |-> issued + 1,
                  refreshToken |-> IF rotated THEN issued + 1 ELSE NoToken,
                  expiresIn |-> EXPIRES_IN]]
            /\ dPc' = [dPc EXCEPT ![d] = "updateTokens"]
            /\ UNCHANGED dError
       ELSE /\ dError' = [dError EXCEPT ![d] = answer]
            /\ \E thrown \in BOOLEAN :
                 dPc' = [dPc EXCEPT ![d] =
                           IF thrown THEN "markExpired" ELSE "updateTokens"]
            /\ UNCHANGED <<issued, dTokens>>
    /\ UNCHANGED <<now, dProject, dConn, connection, dResult, dStatusRead, dTokenRead,
                   dRefreshCalls, dAdapterCalls, dCall, webhook_events, api_logs,
                   provider_connections>>
    /\ UNCHANGED NotToken

\* db.providerConnections.update with the new encrypted tokens; return
\* newTokens.  encrypt runs inside the try block, so an error it throws is
\* caught like a failure of the refresh.
updateTokens(d) ==
    /\ dPc[d] = "updateTokens"
    /\ IF encryptThrows(dTokens[d].accessToken)
       THEN /\ dPc' = [dPc EXCEPT ![d] = "markExpired"]
            /\ UNCHANGED <<provider_connections, connection>>
       ELSE /\ provider_connections' = [provider_connections EXCEPT ![dConn[d]] =
                 [@ EXCEPT !.access_token = encryptToken(dTokens[d].accessToken),
                           !.refresh_token =
                               IF dTokens[d].refreshToken # NoToken
                               THEN encryptToken(dTokens[d].refreshToken)
                               ELSE connection[d].refresh_token,
                           !.expires_at = now + dTokens[d].expiresIn,
                           !.status = "active"]]
            /\ connection' = [connection EXCEPT ![d] = NoRow]
            /\ dPc' = [dPc EXCEPT ![d] = "adapter"]
    /\ UNCHANGED <<now, dProject, dConn, dTokens, dError, dResult, dStatusRead,
                   dTokenRead, dRefreshCalls, dAdapterCalls, dCall, webhook_events,
                   api_logs, issued>>
    /\ UNCHANGED NotToken

\* catch (error): mark the connection as expired.
markExpired(d) ==
    /\ dPc[d] = "markExpired"
    /\ provider_connections' = [provider_connections EXCEPT ![dConn[d]] =
         [@ EXCEPT !.status = "expired", !.error_message = dError[d]]]
    /\ connection' = [connection EXCEPT ![d] = NoRow]
    /\ dPc' = [dPc EXCEPT ![d] = "triggerWebhook"]
    /\ UNCHANGED <<now, dProject, dConn, dTokens, dError, dResult, dStatusRead,
                   dTokenRead, dRefreshCalls, dAdapterCalls, dCall, webhook_events,
                   api_logs, issued>>
    /\ UNCHANGED NotToken

\* The event handed over with the project of another connection.
lifecycleEvent_OtherProject(cid, type) ==
    [project |-> TripleProject(IF cid = "t1" THEN "t2" ELSE "t1"),
     type |-> type, connectionId |-> cid]

\* The arguments of triggerWebhook(connection.project_id, type,
\* {connectionId: connection.id}).
lifecycleEvent(cid, type) ==
    [project |-> TripleProject(cid), type |-> type, connectionId |-> cid]

\* triggerWebhook(project_id, 'connection.expired', ...); throw new
\* ConnectionExpiredError(), which execute does not catch.
triggerWebhook(d) ==
    /\ dPc[d] = "triggerWebhook"
    /\ webhook_events' = webhook_events \cup
         {[by |-> d,
           project |-> lifecycleEvent(dConn[d], "connection.expired").project,
           type |-> lifecycleEvent(dConn[d], "connection.expired").type,
           connectionId |-> dConn[d]]}
    /\ dResult' = [dResult EXCEPT ![d] = "CONNECTION_EXPIRED"]
    /\ dPc' = [dPc EXCEPT ![d] = "done"]
    /\ UNCHANGED <<now, dProject, dConn, connection, dTokens, dError, dStatusRead,
                   dTokenRead, dRefreshCalls, dAdapterCalls, dCall, api_logs, storeVars>>
    /\ UNCHANGED NotToken

\* GmailAdapter.normalizeError
normalizeError(status) ==
    CASE status = 401 -> "CONNECTION_EXPIRED"
      [] status = 403 -> "SCOPE_INSUFFICIENT"
      [] status = 429 -> "RATE_LIMITED"
      [] OTHER -> "PROVIDER_ERROR"

adapterCall_Retry(d, status) ==
    /\ dPc[d] = "adapter"
    /\ dAdapterCalls' = [dAdapterCalls EXCEPT ![d] = @ + 1]
    /\ IF status = 200
       THEN /\ dCall' = [dCall EXCEPT ![d] = [status |-> status, caught |-> "none"]]
            /\ dPc' = [dPc EXCEPT ![d] = "logSuccess"]
       ELSE /\ dCall' = [dCall EXCEPT ![d] =
                 [status |-> status, caught |-> normalizeError(status)]]
            /\ dPc' = [dPc EXCEPT ![d] =
                 IF dAdapterCalls[d] = 0 THEN "adapter" ELSE "logError"]
    /\ UNCHANGED <<now, dProject, dConn, connection, dTokens, dError, dResult,
                   dStatusRead, dTokenRead, dRefreshCalls, webhook_events,
                   api_logs, storeVars>>
    /\ UNCHANGED NotToken

\* execute, step 5: adapter[action] with the tokens.  A provider answer
\* other than 200 is thrown by the adapter's request and caught by execute,
\* which normalizes it.
adapterCall(d, status) ==
    /\ dPc[d] = "adapter"
    /\ dAdapterCalls' = [dAdapterCalls EXCEPT ![d] = @ + 1]
    /\ IF status = 200
       THEN /\ dCall' = [dCall EXCEPT ![d] = [status |-> status, caught |-> "none"]]
            /\ dPc' = [dPc EXCEPT ![d] = "logSuccess"]
       ELSE /\ dCall' = [dCall EXCEPT ![d] =
                 [status |-> status, caught |-> normalizeError(status)]]
            /\ dPc' = [dPc EXCEPT ![d] = "logError"]
    /\ UNCHANGED <<now, dProject, dConn, connection, dTokens, dError, dResult,
                   dStatusRead, dTokenRead, dRefreshCalls, webhook_events,
                   api_logs, storeVars>>
    /\ UNCHANGED NotToken

\* The row logApiRequest inserts into api_logs.
ApiLogRow(d, status, error) ==
    [by |-> d, connectionId |-> dConn[d], status |-> status, error |-> error]

\* execute, step 6: await logApiRequest(...), inside the try block after a
\* successful verb and inside the catch block after a failed one.  The
\* insert may fail (fails), with the row written or not (written).  A
\* rejection inside the try block is caught like an error of the adapter:
\* it has no status, so it is normalized to PROVIDER_ERROR; a rejection
\* inside the catch block leaves execute as it is.
logApiRequest(d, fails, written) ==
    /\ dPc[d] \in {"logSuccess", "logError"}
    /\ ~fails => ~written
    /\ LET status == IF dPc[d] = "logSuccess" THEN "success" ELSE "error"
           row == ApiLogRow(d, status, dCall[d].caught)
       IN api_logs' = IF ~fails \/ written THEN api_logs \cup {row} ELSE api_logs
    /\ IF ~fails
       THEN /\ dResult' = [dResult EXCEPT ![d] =
                 IF dPc[d] = "logSuccess" THEN "success" ELSE dCall[d].caught]
            /\ dPc' = [dPc EXCEPT ![d] = "done"]
            /\ UNCHANGED dCall
       ELSE IF dPc[d] = "logSuccess"
       THEN /\ dCall' = [dCall EXCEPT ![d].caught = normalizeError(0)]
            /\ dPc' = [dPc EXCEPT ![d] = "logError"]
            /\ UNCHANGED dResult
       ELSE /\ dResult' = [dResult EXCEPT ![d] = "INTERNAL_ERROR"]
            /\ dPc' = [dPc EXCEPT ![d] = "done"]
            /\ UNCHANGED dCall
    /\ UNCHANGED <<now, dProject, dConn, connection, dTokens, dError, dStatusRead,
                   dTokenRead, dRefreshCalls, dAdapterCalls, webhook_events,
                   storeVars>>
    /\ UNCHANGED NotToken

\* The connection is revoked (the user revokes, or the developer deletes it).
revokeConnection(t) ==
    /\ provider_connections[t].status \notin {"absent", "revoked"}
    /\ provider_connections' = [provider_connections EXCEPT ![t].status = "revoked"]
    /\ UNCHANGED <<now, issued, tokenVars>>
    /\ UNCHANGED NotToken

NoDelete == [conn |-> "none", code |-> "none"]

InitDelete == deleteRes = [p \in Projects |-> NoDelete]

\* DELETE /connections/:id by project p: revoke the tokens and mark the row
\* revoked when the connection is one of the project's own.
deleteConnection(p, t) ==
    /\ deleteRes[p] = NoDelete
    /\ IF provider_connections[t].status # "absent" /\ TripleProject(t) = p
       THEN /\ provider_connections' =
                 [provider_connections EXCEPT ![t].status = "revoked"]
            /\ deleteRes' = [deleteRes EXCEPT ![p] = [conn |-> t, code |-> "deleted"]]
       ELSE /\ deleteRes' = [deleteRes EXCEPT ![p] = [conn |-> t, code |-> "NOT_FOUND"]]
            /\ UNCHANGED provider_connections
    /\ UNCHANGED NotDelete

\* The store as callbacks left it some time ago: t1 is connected, with a
\* token that does not expire, has come within the refresh buffer (it has
\* expired, or has a little over a minute left), or is still fresh; t2 is
\* not connected.  The provider issued a refresh token with it, or none.
InitStoreConnected ==
    /\ \E e \in {0, T0 - 10, T0 + 61, T0 + EXPIRES_IN},
          r \in {encryptToken(1), NullColumn} :
         provider_connections = [t \in Triples |->
            IF t = "t1"
            THEN [status |-> "active", access_token |-> encryptToken(1),
                  refresh_token |-> r, expires_at |-> e,
                  error_message |-> "none"]
            ELSE NoConnection]
    /\ issued = 1

(***************************************************************************)
(* The HTTP server (index.ts): its middleware and routes                   *)
(***************************************************************************)

Methods == {"GET", "POST", "OPTIONS"}
Paths == {"/health", "/", "/v1/execute", "/oauth/callback"}

\* Which of X-Link-Public-Key, X-Link-Timestamp and X-Link-Signature a
\* request carries.
AuthHeaders == {"X-Link-Public-Key", "X-Link-Timestamp", "X-Link-Signature"}

AppRequests ==
    [method : Methods, path : Paths, headers : SUBSET AuthHeaders]

NoAppRequest == [method |-> "GET", path |-> "/health", headers |-> {}]
NoResponse == [status |-> 0, body |-> "none"]

InitApp ==
    /\ appReq = NoAppRequest
    /\ appPc = "idle"
    /\ appRes = NoResponse

\* app.listen: a request arrives.
listen(r) ==
    /\ appPc = "idle"
    /\ appReq' = r
    /\ appPc' = "routing"
    /\ UNCHANGED appRes
    /\ UNCHANGED NotApp

\* app.get('/health', ...)
healthCheck == [status |-> 200, body |-> "status ok"]

\* app.get('/', ...)
rootEndpoint == [status |-> 200, body |-> "Welcome to the API"]

\* The middleware and routes in the order app registers them: cors()
\* answers a preflight itself, express.json() passes the request on, then
\* the two GET routes; a request no route matches gets Express's 404.
app ==
    /\ appPc = "routing"
    /\ appRes' =
         IF appReq.method = "OPTIONS" THEN [status |-> 204, body |-> "none"]
         ELSE IF appReq.method = "GET" /\ appReq.path = "/health" THEN healthCheck
         ELSE IF appReq.method = "GET" /\ appReq.path = "/" THEN rootEndpoint
         ELSE [status |-> 404, body |-> "Cannot " \o appReq.method]
    /\ appPc' = "responded"
    /\ UNCHANGED appReq
    /\ UNCHANGED NotApp

\* The connection is done with; the next request can be looked at.
appDone ==
    /\ appPc = "responded"
    /\ appReq' = NoAppRequest
    /\ appRes' = NoResponse
    /\ appPc' = "idle"
    /\ UNCHANGED NotApp

(***************************************************************************)
(* The webhook dispatcher                                                  *)
(***************************************************************************)

NEvents == 2
MAX_ATTEMPTS == 5
DISABLE_AFTER == 5

Subscriptions == {"w1", "w2", "w3", "w4"}
EventIds == 1..NEvents
EventTypes == {"connection.created", "connection.expired"}

\* What comes of a POST to a subscriber's endpoint.
Outcomes == {"200", "500", "timeout"}

\* A 2xx response is a success; anything else is a failure.
IsSuccess(outcome) == outcome = "200"

NoEvent == [pc |-> "none", project |-> "none", type |-> "none",
            connectionId |-> "none"]
NoDelivery == [status |-> "none", attempts |-> 0, acked |-> FALSE]

\* The subscriptions with a counter that does not start at 0.
InitWebhook_FailuresFromOne ==
    /\ webhooks = [w \in Subscriptions |->
         [project_id |-> IF w = "w3" THEN "proj_Q" ELSE "proj_P",
          events |-> IF w = "w4" THEN {"connection.created"} ELSE EventTypes,
          is_enabled |-> (w # "w2"),
          consecutive_failures |-> 1]]
    /\ hookEvents = [e \in EventIds |-> NoEvent]
    /\ deliveries = [ew \in EventIds \X Subscriptions |-> NoDelivery]
    /\ webhookQueue = {}

\* The subscriptions of the model, with the table's defaults where the
\* model does not say otherwise: two projects; w2 has been switched off.
InitWebhook ==
    /\ webhooks = [w \in Subscriptions |->
         [project_id |-> IF w = "w3" THEN "proj_Q" ELSE "proj_P",
          events |-> IF w = "w4" THEN {"connection.created"} ELSE EventTypes,
          is_enabled |-> (w # "w2"),
          consecutive_failures |-> 0]]
    /\ hookEvents = [e \in EventIds |-> NoEvent]
    /\ deliveries = [ew \in EventIds \X Subscriptions |-> NoDelivery]
    /\ webhookQueue = {}

\* The subscriptions an event goes to.
Subscribed(ev) ==
    {w \in Subscriptions : /\ webhooks[w].project_id = ev.project
                           /\ webhooks[w].is_enabled
                           /\ ev.type \in webhooks[w].events}

\* The lifecycle of a connection: it is created, and then it expires.
NextEventType(cid) ==
    IF \E e \in EventIds : hookEvents[e].connectionId = cid
    THEN "connection.expired" ELSE "connection.created"

\* An event occurred for connection cid: its rows are written, one for each
\* subscription it goes to.  Events are numbered in the order they occur,
\* and are emitted one after the other.
persistEvent(e, cid) ==
    /\ hookEvents[e].pc = "none"
    /\ \A e0 \in EventIds : e0 < e => hookEvents[e0].pc = "queued"
    /\ LET ev == lifecycleEvent(cid, NextEventType(cid))
       IN /\ hookEvents' = [hookEvents EXCEPT ![e] =
                 [pc |-> "persisted", project |-> ev.project, type |-> ev.type,
                  connectionId |-> ev.connectionId]]
          /\ deliveries' = [ew \in EventIds \X Subscriptions |->
                 IF ew[1] = e /\ ew[2] \in Subscribed(ev)
                 THEN [status |-> "pending", attempts |-> 0, acked |-> FALSE]
                 ELSE deliveries[ew]]
    /\ UNCHANGED <<webhooks, webhookQueue>>
    /\ UNCHANGED NotHook

\* Queue webhook: the persisted rows of the event enter the work queue.
queueWebhook(e) ==
    /\ hookEvents[e].pc = "persisted"
    /\ hookEvents' = [hookEvents EXCEPT ![e].pc = "queued"]
    /\ webhookQueue' = webhookQueue \cup
         {ew \in EventIds \X Subscriptions :
            ew[1] = e /\ deliveries[ew].status = "pending"}
    /\ UNCHANGED <<webhooks, deliveries>>
    /\ UNCHANGED NotHook

\* The counter kept as it is by a success.
NextFailures_KeepOnSuccess(w, ok) ==
    IF ok THEN webhooks[w].consecutive_failures
    ELSE webhooks[w].consecutive_failures + 1

\* consecutive_failures after an attempt: reset by a success, one more after
\* a failure.
NextFailures(w, ok) ==
    IF ok THEN 0 ELSE webhooks[w].consecutive_failures + 1

\* A worker takes a row of an enabled subscription, POSTs the signed payload
\* and records the outcome.
deliver(e, w, outcome) ==
    /\ <<e, w>> \in webhookQueue
    /\ deliveries[<<e, w>>].status = "pending"
    /\ deliveries[<<e, w>>].attempts < MAX_ATTEMPTS
    /\ webhooks[w].is_enabled
    /\ LET n == deliveries[<<e, w>>].attempts + 1
           ok == IsSuccess(outcome)
           failures == NextFailures(w, ok)
       IN /\ deliveries' = [deliveries EXCEPT ![<<e, w>>] =
                 [status |-> IF ok THEN "delivered"
                             ELSE IF n = MAX_ATTEMPTS THEN "exhausted"
                             ELSE "pending",
                  attempts |-> n,
                  acked |-> ok]]
          /\ webhooks' = [webhooks EXCEPT ![w] =
                 [@ EXCEPT !.consecutive_failures = failures,
                           !.is_enabled = failures < DISABLE_AFTER]]
          /\ webhookQueue' = IF ok \/ n = MAX_ATTEMPTS
                             THEN webhookQueue \ {<<e, w>>}
                             ELSE webhookQueue
    /\ UNCHANGED hookEvents
    /\ UNCHANGED NotHook

\* The rows a restarted process finds.
PendingRows == {ew \in EventIds \X Subscriptions : deliveries[ew].status = "pending"}

\* A restart that does not reload the pending rows.
restart_LoseQueue ==
    /\ \E e \in EventIds : hookEvents[e].pc = "persisted"
    /\ webhookQueue' = {}
    /\ hookEvents' = [e \in EventIds |->
         IF hookEvents[e].pc = "persisted"
         THEN [hookEvents[e] EXCEPT !.pc = "queued"]
         ELSE hookEvents[e]]
    /\ UNCHANGED <<webhooks, deliveries>>
    /\ UNCHANGED NotHook

\* The process restarts before an emitter has queued the rows it wrote: the
\* in-process queue is lost, and rebuilt from the rows that are still
\* pending.
restart ==
    /\ \E e \in EventIds : hookEvents[e].pc = "persisted"
    /\ webhookQueue' = PendingRows
    /\ hookEvents' = [e \in EventIds |->
         IF hookEvents[e].pc = "persisted"
         THEN [hookEvents[e] EXCEPT !.pc = "queued"]
         ELSE hookEvents[e]]
    /\ UNCHANGED <<webhooks, deliveries>>
    /\ UNCHANGED NotHook

(***************************************************************************)
(* Rate limiting (rateLimitMiddleware)                                     *)
(***************************************************************************)

\* new RateLimiter({points: 60, duration: 60, blockDuration: 60})
POINTS == 60
DURATION == 60
BLOCK_DURATION == 60

\* The clock of the requests: RateTicks steps of RATE_TICK seconds.
RATE_TICK == 59
RateTicks == 2
\* Requests sent beyond the budget of a window, and requests of the second
\* project.
MaxOverrun == 1
MaxOtherRequests == 1

NoneAdmitted == [current |-> 0, previous |-> 0]

NoErrorResponse == [status |-> 0, success |-> TRUE, code |-> "none", requestId |-> FALSE]

\* res.status(429).json({success: false, error: {code: 'RATE_LIMITED',
\* message, retryAfter}}): the body has no meta.
rateLimitedResponse ==
    [status |-> 429, success |-> FALSE, code |-> "RATE_LIMITED", requestId |-> FALSE]

NoPoints == [consumedPoints |-> 0, expiresAt |-> 0]

InitRate ==
    /\ rateLimiter = [p \in Projects |-> NoPoints]
    /\ admitted = [p \in Projects |-> NoneAdmitted]
    /\ sent = 0
    /\ rejected = [p \in Projects |-> FALSE]

\* rateLimiter.consume(key): the points of the key are counted from its
\* first request and reset when `duration` has passed since then; the
\* request that takes the key beyond `points` blocks it for blockDuration.
consume(rec) ==
    LET cur == IF rec.expiresAt = 0 \/ rec.expiresAt <= now
               THEN [consumedPoints |-> 1, expiresAt |-> now + DURATION]
               ELSE [rec EXCEPT !.consumedPoints = @ + 1]
    IN IF cur.consumedPoints > POINTS
       THEN [ok |-> FALSE,
             rec |-> IF cur.consumedPoints <= POINTS + 1
                     THEN [cur EXCEPT !.expiresAt = now + BLOCK_DURATION]
                     ELSE cur]
       ELSE [ok |-> TRUE, rec |-> cur]

\* rateLimitMiddleware for a request of project p: next() when the points
\* were consumed, 429 RATE_LIMITED otherwise.
rateLimitMiddleware(p) ==
    /\ rateLimiter[p].consumedPoints < POINTS + MaxOverrun
         \/ rateLimiter[p].expiresAt <= now
    /\ p = "proj_Q" => sent < MaxOtherRequests
    /\ sent' = IF p = "proj_Q" THEN sent + 1 ELSE sent
    /\ LET res == consume(rateLimiter[p])
       IN /\ rateLimiter' = [rateLimiter EXCEPT ![p] = res.rec]
          /\ admitted' = IF res.ok
                         THEN [admitted EXCEPT ![p].current = @ + 1]
                         ELSE admitted
          /\ rejected' = IF res.ok THEN rejected
                         ELSE [rejected EXCEPT ![p] = TRUE]
          /\ errRes' = IF res.ok THEN errRes ELSE rateLimitedResponse
    /\ UNCHANGED now
    /\ UNCHANGED NotRate

\* Time passes between requests.
RateTick ==
    /\ now + RATE_TICK <= T0 + RateTicks * RATE_TICK
    /\ now' = now + RATE_TICK
    /\ admitted' = [p \in Projects |->
                       [current |-> 0, previous |-> admitted[p].current]]
    /\ UNCHANGED <<rateLimiter, sent, rejected, errRes>>
    /\ UNCHANGED NotRate

(***************************************************************************)
(* Encryption of stored secrets (encrypt / decrypt)                        *)
(***************************************************************************)

\* Plaintexts are strings over 'a' and ':' of up to MaxPlain characters;
\* encrypt is called up to MaxEncrypt times.
MaxPlain == 2
MaxEncrypt == 2

\* The master keys that process.env.ENCRYPTION_KEY holds one after the
\* other, here one byte each.
MasterKeys == <<77, 190>>

\* Buffer.from(process.env.ENCRYPTION_KEY, 'hex')
MASTER_KEY == MasterKeys[keyVersion]

PlainChars == {"a", ":"}
Plaintexts == UNION {[1..n -> PlainChars] : n \in 0..MaxPlain}

\* cipher.update(plaintext, 'utf8', ...) and decipher.update(..., 'utf8').
Utf8Byte(ch) == IF ch = "a" THEN 97 ELSE 58
Utf8Char(b) == IF b = 97 THEN "a" ELSE IF b = 58 THEN ":" ELSE "?"
Utf8Encode(str) == [i \in 1..Len(str) |-> Utf8Byte(str[i])]
Utf8Decode(bytes) == [i \in 1..Len(bytes) |-> Utf8Char(bytes[i])]

\* buf.toString('hex'): two lower-case digits per byte.
HexDigits == <<"0", "1", "2", "3", "4", "5", "6", "7", "8", "9",
               "a", "b", "c", "d", "e", "f">>
UpperDigits == <<"0", "1", "2", "3", "4", "5", "6", "7", "8", "9",
                 "A", "B", "C", "D", "E", "F">>

RECURSIVE ToHex(_)
ToHex(bytes) ==
    IF bytes = <<>> THEN <<>>
    ELSE <<HexDigits[(Head(bytes) \div 16) + 1], HexDigits[(Head(bytes) % 16) + 1]>>
           \o ToHex(Tail(bytes))

\* The value of a hex digit of either case, -1 for any other character.
HexValue(ch) ==
    IF \E i \in 1..16 : HexDigits[i] = ch
    THEN (CHOOSE i \in 1..16 : HexDigits[i] = ch) - 1
    ELSE IF \E i \in 1..16 : UpperDigits[i] = ch
         THEN (CHOOSE i \in 1..16 : UpperDigits[i] = ch) - 1
         ELSE -1

\* Buffer.from(hex, 'hex'): pairs of digits are decoded up to the first
\* character that is not a hex digit; a last single digit is dropped.
RECURSIVE FromHex(_)
FromHex(hex) ==
    IF Len(hex) < 2 \/ HexValue(hex[1]) = -1 \/ HexValue(hex[2]) = -1
    THEN <<>>
    ELSE <<16 * HexValue(hex[1]) + HexValue(hex[2])>> \o FromHex(Tail(Tail(hex)))

RECURSIVE SumBytes(_)
SumBytes(bytes) == IF bytes = <<>> THEN 0 ELSE Head(bytes) + SumBytes(Tail(bytes))

\* aes-256-gcm, as a keystream added to the plaintext bytes and a tag over
\* key, iv and ciphertext.
Keystream(iv, i) == (MASTER_KEY + 3 * SumBytes(iv) + 5 * i) % 256
Cipher(iv, bytes) == [i \in 1..Len(bytes) |-> (bytes[i] + Keystream(iv, i)) % 256]
Decipher(iv, bytes) ==
    [i \in 1..Len(bytes) |-> (bytes[i] + 256 - Keystream(iv, i)) % 256]
AuthTag(iv, bytes) ==
    <<(MASTER_KEY + 7 * SumBytes(iv) + SumBytes(bytes) + Len(bytes)) % 256>>

\* crypto.randomBytes(IV_LENGTH): the n-th call returns a value not
\* returned before.
randomBytes(n) == <<(16 * n + 1) % 256>>

\* encrypt(plaintext) with the iv drawn: `${iv}:${authTag}:${encrypted}`,
\* kept as the sequence of the parts between the colons.
encrypt(plaintext, iv) ==
    LET encrypted == Cipher(iv, Utf8Encode(plaintext))
    IN <<ToHex(iv), ToHex(AuthTag(iv, encrypted)), ToHex(encrypted)>>

Failure == [ok |-> FALSE, text |-> <<>>]

\* decrypt(ciphertext): split(':'), the first three parts decoded from
\* hex; setAuthTag and decipher.final throw on a bad tag.
decryptCiphertext(ciphertext) ==
    IF Len(ciphertext) < 3 THEN Failure
    ELSE LET iv == FromHex(ciphertext[1])
             authTag == FromHex(ciphertext[2])
             encryptedData == FromHex(ciphertext[3])
         IN IF iv = <<>> \/ Len(authTag) # 1 THEN Failure
            ELSE IF authTag # AuthTag(iv, encryptedData) THEN Failure
            ELSE [ok |-> TRUE, text |-> Utf8Decode(Decipher(iv, encryptedData))]

NoValue == <<>>
NotHeld == [index |-> 0, part |-> 0, how |-> "none"]
NotDecrypted == [done |-> FALSE, ok |-> FALSE, text |-> <<>>]

InitCrypto ==
    /\ stored = <<>>
    /\ held = NoValue
    /\ heldFrom = NotHeld
    /\ decrypted = NotDecrypted
    /\ keyVersion = 1

\* encrypt(x) is called and its result stored.
encryptCall(x) ==
    /\ Len(stored) < MaxEncrypt
    /\ stored' = Append(stored,
                        [plaintext |-> x, version |-> keyVersion,
                         value |-> encrypt(x, randomBytes(Len(stored) + 1))])
    /\ UNCHANGED <<held, heldFrom, decrypted, keyVersion>>
    /\ UNCHANGED NotCrypto

\* The ways a part of a stored value is altered: another first digit, its
\* letters in upper case, or a character appended that is no hex digit.
Alterations == {"digit", "upper", "append"}

Upper(ch) == IF HexValue(ch) >= 10 THEN UpperDigits[HexValue(ch) + 1] ELSE ch

Altered(hex, how) ==
    CASE how = "digit" ->
           <<HexDigits[((HexValue(hex[1]) + 1) % 16) + 1]>> \o Tail(hex)
      [] how = "upper" -> [i \in 1..Len(hex) |-> Upper(hex[i])]
      [] OTHER -> Append(hex, "z")

\* A stored value is read back, as it is or with one part altered.
readStored(i, part, how) ==
    /\ held = NoValue
    /\ i \in 1..Len(stored)
    /\ LET value == stored[i].value
       IN IF part = 0
          THEN /\ how = "none"
               /\ held' = value
          ELSE /\ how \in Alterations
               /\ how = "digit" => value[part] # <<>>
               /\ Altered(value[part], how) # value[part]
               /\ held' = [value EXCEPT ![part] = Altered(value[part], how)]
    /\ heldFrom' = [index |-> i, part |-> part, how |-> how]
    /\ UNCHANGED <<stored, decrypted, keyVersion>>
    /\ UNCHANGED NotCrypto

\* decrypt(value)
decryptCall ==
    /\ held # NoValue
    /\ ~decrypted.done
    /\ LET res == decryptCiphertext(held)
       IN decrypted' = [done |-> TRUE, ok |-> res.ok, text |-> res.text]
    /\ UNCHANGED <<stored, held, heldFrom, keyVersion>>
    /\ UNCHANGED NotCrypto

\* Key rotation, step 1: a new key with incremented version becomes the
\* master key.
rotateMasterKey ==
    /\ keyVersion < Len(MasterKeys)
    /\ keyVersion' = keyVersion + 1
    /\ UNCHANGED <<stored, held, heldFrom, decrypted>>
    /\ UNCHANGED NotCrypto

\* Key rotation, steps 2 and 3: the migration re-encrypts one stored value
\* with the new key (it holds the key the value was written under).
reencrypt(i) ==
    /\ i \in 1..Len(stored)
    /\ stored[i].version < keyVersion
    /\ held = NoValue
    /\ stored' = [stored EXCEPT ![i] =
         [plaintext |-> stored[i].plaintext, version |-> keyVersion,
          value |-> encrypt(stored[i].plaintext, FromHex(stored[i].value[1]))]]
    /\ UNCHANGED <<held, heldFrom, decrypted, keyVersion>>
    /\ UNCHANGED NotCrypto

(***************************************************************************)
(* Start of the process: envSchema, config and the server                  *)
(***************************************************************************)

Undefined == "undefined"

\* Sample values of the environment variables.
SampleUrl == "https://db.example.co"
PortValues == {Undefined, "3001", "abc"}
UrlValues == {Undefined, SampleUrl, "not-a-url"}
KeyValues == {Undefined, "", "key"}
EncryptionKeyValues == {Undefined, "hex64", "nonhex64", "hex10"}

\* The length of a sample value; hex64 and nonhex64 stand for strings of
\* 64 characters, of hex digits and of other letters.
Length(v) ==
    CASE v = "" -> 0
      [] v = "hex64" -> 64
      [] v = "nonhex64" -> 64
      [] v = "hex10" -> 10
      [] v = SampleUrl -> 21
      [] v = "not-a-url" -> 9
      [] v = "3001" -> 4
      [] OTHER -> 3

IsUrl(v) == v = SampleUrl
IsHex(v) == v \in {"hex64", "hex10"}
IsNumeric(v) == v = "3001"

Environments ==
    [PORT : PortValues, SUPABASE_URL : UrlValues,
     SUPABASE_SERVICE_KEY : KeyValues, ENCRYPTION_KEY : EncryptionKeyValues,
     API_BASE_URL : UrlValues, OAUTH_CALLBACK_URL : UrlValues,
     GOOGLE_CLIENT_ID : KeyValues, GOOGLE_CLIENT_SECRET : KeyValues]

NoEnvironment ==
    [PORT |-> Undefined, SUPABASE_URL |-> Undefined,
     SUPABASE_SERVICE_KEY |-> Undefined, ENCRYPTION_KEY |-> Undefined,
     API_BASE_URL |-> Undefined, OAUTH_CALLBACK_URL |-> Undefined,
     GOOGLE_CLIENT_ID |-> Undefined, GOOGLE_CLIENT_SECRET |-> Undefined]

\* The number of bytes of Buffer.from(v, 'hex'): two hex digits make a
\* byte, and decoding stops at the first character that is no hex digit
\* (the sample nonhex64 has none).
HexDecodedLength(v) == IF IsHex(v) THEN Length(v) \div 2 ELSE 0

NoConfig == [port |-> "none", supabase |-> "none", encryption |-> "none"]

\* envSchema.safeParse(process.env).success: PORT is a string with a
\* default, SUPABASE_URL a url, SUPABASE_SERVICE_KEY a string of at least
\* one character, ENCRYPTION_KEY a string of length 64; keys that the
\* schema does not name are not looked at.
envSchema(e) ==
    /\ e.SUPABASE_URL # Undefined /\ IsUrl(e.SUPABASE_URL)
    /\ e.SUPABASE_SERVICE_KEY # Undefined /\ Length(e.SUPABASE_SERVICE_KEY) >= 1
    /\ e.ENCRYPTION_KEY # Undefined /\ Length(e.ENCRYPTION_KEY) = 64

\* PORT: z.string().default('3001').transform(Number)
Port(e) ==
    LET str == IF e.PORT = Undefined THEN "3001" ELSE e.PORT
    IN IF IsNumeric(str) THEN str ELSE "NaN"

InitConfig ==
    /\ env = NoEnvironment
    /\ cfgPc = "init"
    /\ config = NoConfig

\* The process starts with environment e and loads config/env: safeParse,
\* then process.exit(1) or the export of config.
loadEnv(e) ==
    /\ cfgPc = "init"
    /\ env' = e
    /\ IF envSchema(e)
       THEN /\ cfgPc' = "loaded"
            /\ config' = [port |-> Port(e),
                          supabase |-> [url |-> e.SUPABASE_URL,
                                        serviceKey |-> e.SUPABASE_SERVICE_KEY],
                          encryption |-> [key |-> e.ENCRYPTION_KEY]]
       ELSE /\ cfgPc' = "exited"
            /\ config' = NoConfig
    /\ UNCHANGED NotConfig

\* app.listen(config.port, ...)
startServer ==
    /\ cfgPc = "loaded"
    /\ cfgPc' = "serving"
    /\ UNCHANGED <<env, config>>
    /\ UNCHANGED NotConfig

(***************************************************************************)
(* Error responses (errorHandler)                                          *)
(***************************************************************************)

\* The codes of the LinkError classes.
ErrorCodes ==
    {"INVALID_API_KEY", "INVALID_SIGNATURE", "TIMESTAMP_EXPIRED",
     "CONNECTION_EXPIRED", "CONNECTION_REVOKED", "INVALID_STATE",
     "VALIDATION_ERROR", "CONNECTION_NOT_FOUND", "NOT_FOUND",
     "SCOPE_INSUFFICIENT", "FORBIDDEN", "PROVIDER_ERROR", "RATE_LIMITED"}

\* The errors that reach errorHandler: a LinkError of some code, a
\* ZodError, or any other Error.
ThrownErrors ==
    [kind : {"LinkError"}, code : ErrorCodes]
      \cup {[kind |-> "ZodError", code |-> "none"],
            [kind |-> "Error", code |-> "none"]}

\* The statusCode of the LinkError classes that utils/errors.ts does not
\* declare.
undeclaredStatusCode(code) ==
    CASE code = "CONNECTION_REVOKED" -> 401
      [] code = "INVALID_STATE" -> 400
      [] code = "VALIDATION_ERROR" -> 400
      [] code = "CONNECTION_NOT_FOUND" -> 404
      [] code = "SCOPE_INSUFFICIENT" -> 403
      [] OTHER -> statusCode(code)

InitError == errRes = NoErrorResponse

\* errorHandler(err, req, res, next)
errorHandler(err) ==
    /\ errRes' =
         IF err.kind = "LinkError"
         THEN [status |-> undeclaredStatusCode(err.code), success |-> FALSE,
               code |-> err.code, requestId |-> TRUE]
         ELSE IF err.kind = "ZodError"
         THEN [status |-> 400, success |-> FALSE, code |-> "VALIDATION_ERROR",
               requestId |-> TRUE]
         ELSE [status |-> 500, success |-> FALSE, code |-> "INTERNAL_ERROR",
               requestId |-> TRUE]
    /\ UNCHANGED NotError

(***************************************************************************)
(* The provider registry (registry.ts)                                     *)
(***************************************************************************)

MaxLookups == 3

\* The adapters the module registers when it is loaded, in the order of the
\* register calls, and the names a request may ask for.
Registrations == <<"gmail", "google_calendar", "notion", "slack">>
ProviderNames == {"gmail", "google_calendar", "notion", "slack", "outlook"}

NoAdapter == 0

InitRegistry ==
    /\ adapters = [name \in ProviderNames |-> NoAdapter]
    /\ regPc = 1
    /\ lookups = <<>>

\* register(adapter): this.adapters.set(adapter.name, adapter).
ProviderRegistry_register(name, adapter) ==
    adapters' = [adapters EXCEPT ![name] = adapter]

\* The module's own providerRegistry.register(new ...Adapter()) calls, run
\* once when the module is loaded; each creates a new adapter instance.
autoRegister ==
    /\ regPc <= Len(Registrations)
    /\ ProviderRegistry_register(Registrations[regPc], regPc)
    /\ regPc' = regPc + 1
    /\ UNCHANGED lookups
    /\ UNCHANGED NotRegistry

\* The process handles requests once its modules are loaded.
Serving == regPc > Len(Registrations)

ProviderRegistry_get_Cache(name) ==
    /\ Serving
    /\ Len(lookups) < MaxLookups
    /\ adapters' = [adapters EXCEPT ![name] =
          IF @ = NoAdapter THEN Len(Registrations) + 1 ELSE @]
    /\ lookups' = Append(lookups,
          [name |-> name, found |-> TRUE, adapter |-> adapters'[name]])
    /\ UNCHANGED regPc
    /\ UNCHANGED NotRegistry

\* get(name), called by execute (step 1): the adapter of the name, or a
\* thrown ProviderNotFoundError.
ProviderRegistry_get(name) ==
    /\ Serving
    /\ Len(lookups) < MaxLookups
    /\ lookups' = Append(lookups,
          [name |-> name, found |-> adapters[name] # NoAdapter,
           adapter |-> adapters[name]])
    /\ UNCHANGED <<adapters, regPc>>
    /\ UNCHANGED NotRegistry

\* list(): Array.from(this.adapters.values()).
ProviderRegistry_list == {adapters[name] : name \in ProviderNames} \ {NoAdapter}

(***************************************************************************)
(* What the state row carries from /oauth/connect to the callback          *)
(***************************************************************************)

EndUsers == {"user_a", "user_b"}
RedirectUris == {"https://app.example/cb", "https://other.example/cb"}
Providers == {"gmail"}

\* A column that was given no value.
Null == "null"

\* The body of POST /oauth/connect, with the project of the API key.
ConnectRequests ==
    [project : Projects, provider : Providers, userId : EndUsers,
     redirectUri : RedirectUris]

NoConnectRequest ==
    [project |-> "none", provider |-> "none", userId |-> "none",
     redirectUri |-> "none"]
NoStateRow ==
    [project_id |-> Null, provider_id |-> Null, end_user_id |-> Null,
     redirect_uri |-> Null, used |-> FALSE]
NoLanding ==
    [result |-> "none", project |-> "none", provider |-> "none",
     end_user |-> "none", redirect |-> "none"]

InitConnect ==
    /\ connectReqs = [tok \in StateTokens |-> NoConnectRequest]
    /\ stateRows = [tok \in StateTokens |-> NoStateRow]
    /\ landings = [tok \in StateTokens |-> NoLanding]

\* The row db.oauthStates.create is given by generateOAuthState(projectId,
\* providerId): state_token, project_id, provider_id and expires_at.
OAuthStateRow(projectId, providerId) ==
    [project_id |-> projectId, provider_id |-> providerId, end_user_id |-> Null,
     redirect_uri |-> Null, used |-> FALSE]

\* What generateOAuthState stores for the connect request r.
StoredFor(r) == OAuthStateRow(r.project, r.provider)

\* POST /oauth/connect with body r: generateOAuthState stores the row of a
\* fresh state token.
oauthConnect(tok, r) ==
    /\ connectReqs[tok] = NoConnectRequest
    /\ tok = "S2" => connectReqs["S1"] # NoConnectRequest
    /\ connectReqs' = [connectReqs EXCEPT ![tok] = r]
    /\ stateRows' = [stateRows EXCEPT ![tok] = StoredFor(r)]
    /\ UNCHANGED landings
    /\ UNCHANGED NotConnect

\* The end user the provider's user info of an authorization code stands
\* for: the person who gave the consent the code was issued for.
UserInfo(code) == IF code = "code1" THEN "user_a" ELSE "user_b"

\* GET /oauth/callback?code&state: the state row is validated and marked
\* used, and the connection is created for the project, provider and end
\* user of the row, the end user being the one made from the provider's
\* user info (steps 3 and 5) when the row names none; the redirect goes to
\* the row's redirect_uri.
oauthCallback(tok, code) ==
    /\ landings[tok] = NoLanding
    /\ connectReqs[tok] # NoConnectRequest
    /\ ~stateRows[tok].used
    /\ stateRows' = [stateRows EXCEPT ![tok].used = TRUE]
    /\ LET row == stateRows[tok]
       IN landings' = [landings EXCEPT ![tok] =
            [result |-> "success", project |-> row.project_id,
             provider |-> row.provider_id,
             end_user |-> IF row.end_user_id # Null THEN row.end_user_id
                          ELSE UserInfo(code),
             redirect |-> row.redirect_uri]]
    /\ UNCHANGED connectReqs
    /\ UNCHANGED NotConnect

(***************************************************************************)
(* Lazy loading of adapters (LazyProviderRegistry)                         *)
(***************************************************************************)

NGetters == 3

Getters == 1..NGetters

\* The names that have a loader; ProviderNames has one more, without.
LoaderNames == {"gmail", "slack"}
LazyNames == LoaderNames \cup {"outlook"}

InitLazy ==
    /\ loaded = [name \in LazyNames |-> NoAdapter]
    /\ loaderCalls = [name \in LazyNames |-> 0]
    /\ getPc = [g \in Getters |-> "idle"]
    /\ getName = [g \in Getters |-> "none"]
    /\ getAdapter = [g \in Getters |-> NoAdapter]

\* The adapter instances made so far; every call of a loader makes a new one.
InstancesMade == loaderCalls["gmail"] + loaderCalls["slack"]

\* get(name) up to its await: return the loaded adapter, throw
\* ProviderNotFoundError for a name without loader, or invoke the loader.
\* Calls are numbered in the order they are made.
LazyProviderRegistry_get(g, name) ==
    /\ getPc[g] = "idle"
    /\ \A g0 \in Getters : g0 < g => getPc[g0] # "idle"
    /\ getName' = [getName EXCEPT ![g] = name]
    /\ IF loaded[name] # NoAdapter
       THEN /\ getAdapter' = [getAdapter EXCEPT ![g] = loaded[name]]
            /\ getPc' = [getPc EXCEPT ![g] = "returned"]
            /\ UNCHANGED loaderCalls
       ELSE IF name \notin LoaderNames
       THEN /\ getPc' = [getPc EXCEPT ![g] = "ProviderNotFoundError"]
            /\ UNCHANGED <<getAdapter, loaderCalls>>
       ELSE /\ loaderCalls' = [loaderCalls EXCEPT ![name] = @ + 1]
            /\ getAdapter' = [getAdapter EXCEPT ![g] = InstancesMade + 1]
            /\ getPc' = [getPc EXCEPT ![g] = "loading"]
    /\ UNCHANGED loaded
    /\ UNCHANGED NotLazy

\* The loader's promise resolves: this.loaded.set(name, adapter); return
\* adapter.
loaderResolved(g) ==
    /\ getPc[g] = "loading"
    /\ loaded' = [loaded EXCEPT ![getName[g]] = getAdapter[g]]
    /\ getPc' = [getPc EXCEPT ![g] = "returned"]
    /\ UNCHANGED <<loaderCalls, getName, getAdapter>>
    /\ UNCHANGED NotLazy

\* Time passes.
Tick ==
    /\ now + REPLAY_DELAY <= MaxNow
    /\ now' = now + REPLAY_DELAY
    /\ UNCHANGED <<authVars, oauthVars, storeVars, tokenVars, otherVars>>

InitOther ==
    /\ InitApp
    /\ InitWebhook
    /\ InitRate
    /\ InitDelete
    /\ InitCrypto
    /\ InitConfig
    /\ InitError
    /\ InitRegistry
    /\ InitConnect
    /\ InitLazy

Init ==
    /\ now = T0
    /\ InitAuth
    /\ InitOAuth
    /\ InitStore
    /\ InitToken
    /\ InitOther

InitConnected ==
    /\ now = T0
    /\ InitAuth
    /\ InitOAuth
    /\ InitStoreConnected
    /\ InitToken
    /\ InitOther

NextAuth ==
    \/ authPc = "idle" /\ \E r \in Requests(now) : Submit(r)
    \/ Replay
    \/ Respond
    \/ verifyApiKey
    \/ verifySignature
    \/ rotateApiKey
    \/ Tick

SpecAuth == Init /\ [][NextAuth]_vars

NextOAuth ==
    \/ \E tok \in StateTokens, t \in Triples : generateOAuthState(tok, t)
    \/ \E c \in Callbacks, tok \in StateTokens, code \in Codes :
          findByToken(c, tok, code)
    \/ \E c \in Callbacks : markUsed(c)
    \/ \E c \in Callbacks, refused \in BOOLEAN : exchangeCode(c, refused)
    \/ \E c \in Callbacks : createConnection(c)
    \/ \E c \in Callbacks : markStateUsed(c)
    \/ \E tok \in StateTokens : TickToExpiry(tok)
    \/ Tick

SpecOAuth == Init /\ [][NextOAuth]_vars

\* Dispatches asked for by the project that owns the connection.
NextToken ==
    \/ \E d \in Dispatches, cid \in Triples :
          connectionGet(d, TripleProject(cid), cid)
    \/ \E d \in Dispatches : getValidToken(d)
    \/ \E d \in Dispatches, answer \in {"ok"} \cup RefreshFailures,
          rotated \in BOOLEAN : refreshAccessToken(d, answer, rotated)
    \/ \E d \in Dispatches : updateTokens(d)
    \/ \E d \in Dispatches : markExpired(d)
    \/ \E d \in Dispatches : triggerWebhook(d)
    \/ \E d \in Dispatches, status \in AdapterStatuses : adapterCall(d, status)
    \/ \E d \in Dispatches, fails, written \in BOOLEAN :
          logApiRequest(d, fails, written)
    \/ \E t \in Triples : revokeConnection(t)

SpecToken == InitConnected /\ [][NextToken]_vars

\* Dispatches handled one after the other: a request enters execute when no
\* other is in it.
OneAtATime(d) == \A d0 \in Dispatches \ {d} : dPc[d0] \in {"start", "done"}

NextDispatch ==
    \/ \E d \in Dispatches, cid \in Triples :
          OneAtATime(d) /\ connectionGet(d, TripleProject(cid), cid)
    \/ \E d \in Dispatches : getValidToken(d)
    \/ \E d \in Dispatches, answer \in {"ok"} \cup RefreshFailures,
          rotated \in BOOLEAN : refreshAccessToken(d, answer, rotated)
    \/ \E d \in Dispatches : updateTokens(d)
    \/ \E d \in Dispatches : markExpired(d)
    \/ \E d \in Dispatches : triggerWebhook(d)
    \/ \E d \in Dispatches, status \in AdapterStatuses : adapterCall(d, status)
    \/ \E d \in Dispatches, fails, written \in BOOLEAN :
          logApiRequest(d, fails, written)
    \/ \E t \in Triples : revokeConnection(t)

SpecDispatch == InitConnected /\ [][NextDispatch]_vars

\* Dispatches asked for by any project, for any connection id.
NextExecute ==
    \/ \E d \in Dispatches, p \in Projects, cid \in Triples :
          connectionGet(d, p, cid)
    \/ \E d \in Dispatches : getValidToken(d)
    \/ \E d \in Dispatches, answer \in {"ok"} \cup RefreshFailures,
          rotated \in BOOLEAN : refreshAccessToken(d, answer, rotated)
    \/ \E d \in Dispatches : updateTokens(d)
    \/ \E d \in Dispatches : markExpired(d)
    \/ \E d \in Dispatches : triggerWebhook(d)
    \/ \E d \in Dispatches, status \in AdapterStatuses : adapterCall(d, status)
    \/ \E d \in Dispatches, fails, written \in BOOLEAN :
          logApiRequest(d, fails, written)
    \/ \E p \in Projects, t \in Triples : deleteConnection(p, t)

SpecExecute == InitConnected /\ [][NextExecute]_vars

NextApp ==
    \/ \E r \in AppRequests : listen(r)
    \/ app
    \/ appDone

SpecApp == Init /\ [][NextApp]_vars

NextWebhook ==
    \/ \E e \in EventIds, cid \in Triples : persistEvent(e, cid)
    \/ \E e \in EventIds : queueWebhook(e)
    \/ \E e \in EventIds, w \in Subscriptions, outcome \in Outcomes :
          deliver(e, w, outcome)
    \/ restart

SpecWebhook == Init /\ [][NextWebhook]_vars

NextCrypto ==
    \/ \E x \in Plaintexts : encryptCall(x)
    \/ \E i \in 1..MaxEncrypt, part \in 0..3, how \in Alterations \cup {"none"} :
          readStored(i, part, how)
    \/ decryptCall

SpecCrypto == Init /\ [][NextCrypto]_vars

NextRotation ==
    \/ \E x \in Plaintexts : encryptCall(x)
    \/ \E i \in 1..MaxEncrypt : readStored(i, 0, "none")
    \/ decryptCall
    \/ rotateMasterKey
    \/ \E i \in 1..MaxEncrypt : reencrypt(i)

SpecRotation == Init /\ [][NextRotation]_vars

NextConfig ==
    \/ \E e \in Environments : loadEnv(e)
    \/ startServer

SpecConfig == Init /\ [][NextConfig]_vars

NextError ==
    \/ \E err \in ThrownErrors : errorHandler(err)
    \/ \E p \in Projects : rateLimitMiddleware(p)

SpecError == Init /\ [][NextError]_vars

\* No callback is being handled and no dispatch is in getValidToken.
Idle ==
    /\ \A c \in Callbacks : cbPc[c] \in {"start", "done"}
    /\ \A d \in Dispatches : dPc[d] \in {"start", "adapter", "done"}

\* The writers of provider_connections, the callback and getValidToken,
\* run one after the other.  What a refresh stores does not depend on the
\* kind of failure nor on whether the refresh token is rotated, so one
\* failure and the rotating answer stand for all.
NextConnection ==
    \/ \E tok \in StateTokens, t \in Triples : generateOAuthState(tok, t)
    \/ \E c \in Callbacks, tok \in StateTokens, code \in Codes :
          Idle /\ findByToken(c, tok, code)
    \/ \E c \in Callbacks : markUsed(c)
    \/ \E c \in Callbacks, refused \in BOOLEAN : exchangeCode(c, refused)
    \/ \E c \in Callbacks : createConnection(c)
    \/ \E c \in Callbacks : markStateUsed(c)
    \/ \E d \in Dispatches, cid \in Triples :
          Idle /\ connectionGet(d, TripleProject(cid), cid)
    \/ \E d \in Dispatches : getValidToken(d)
    \/ \E d \in Dispatches, answer \in {"ok", "invalid_grant"} :
          refreshAccessToken(d, answer, TRUE)
    \/ \E d \in Dispatches : updateTokens(d)
    \/ \E d \in Dispatches : markExpired(d)
    \/ \E d \in Dispatches : triggerWebhook(d)

SpecConnection == InitConnected /\ [][NextConnection]_vars

NextConnect ==
    \/ \E tok \in StateTokens, r \in ConnectRequests : oauthConnect(tok, r)
    \/ \E tok \in StateTokens, code \in Codes : oauthCallback(tok, code)

SpecConnect == Init /\ [][NextConnect]_vars

NextLazy ==
    \/ \E g \in Getters, name \in LazyNames : LazyProviderRegistry_get(g, name)
    \/ \E g \in Getters : loaderResolved(g)

SpecLazy == Init /\ [][NextLazy]_vars

NextRegistry ==
    \/ autoRegister
    \/ \E name \in ProviderNames : ProviderRegistry_get(name)

SpecRegistry == Init /\ [][NextRegistry]_vars

NextRate ==
    \/ \E p \in Projects : rateLimitMiddleware(p)
    \/ RateTick

SpecRate == Init /\ [][NextRate]_vars

(***************************************************************************)
(* Properties                                                              *)
(***************************************************************************)

DoneCallbacks(tok) == {c \in Callbacks : cbState[c] = tok /\ cbPc[c] = "done"}

\* C1: of the callback deliveries that carry the same state token, at most
\* one ends in a success redirect, and once one has succeeded every other
\* one ends with INVALID_STATE.
C1_ExactlyOneCallbackSucceeds ==
    \A tok \in StateTokens :
        LET succ == {c \in DoneCallbacks(tok) : cbResult[c] = "success"}
        IN /\ Cardinality(succ) <= 1
           /\ succ # {} =>
                \A c \in DoneCallbacks(tok) \ succ : cbResult[c] = "INVALID_STATE"

InFlightRefreshes(t) == {d \in Dispatches : dPc[d] = "refreshing" /\ dConn[d] = t}

\* C2: at no moment are two calls to the provider's token endpoint in
\* flight for the same connection.
C2_OneRefreshInFlight ==
    \A t \in Triples : Cardinality(InFlightRefreshes(t)) <= 1

\* The dispatch found the stored token expired and its refresh succeeded.
RefreshedOk(d) ==
    dPc[d] = "done" /\ dRefreshCalls[d] = 1 /\ dError[d] = "none"

Running(t) == {d \in Dispatches : dConn[d] = t /\ dPc[d] \notin {"start", "done"}}

\* C3: dispatches of one connection that found the same stored token
\* expired, and whose refresh the provider answered with success, all use
\* the same new access token, which is the token left in the store.
C3_ConcurrentDispatchesShareToken ==
    \A d1, d2 \in Dispatches :
        ( /\ RefreshedOk(d1) /\ RefreshedOk(d2)
          /\ dConn[d1] = dConn[d2]
          /\ dTokenRead[d1] = dTokenRead[d2]
          /\ Running(dConn[d1]) = {} )
        => /\ dTokens[d1].accessToken = dTokens[d2].accessToken
           /\ decryptToken(provider_connections[dConn[d1]].access_token)
                = dTokens[d1].accessToken

\* C4: a getValidToken that finds the connection expired or revoked ends
\* the dispatch at once with CONNECTION_EXPIRED or CONNECTION_REVOKED, and
\* the dispatch calls neither the token endpoint nor the adapter's verb.
C4_TerminalStatusFailsFast ==
    \A d \in Dispatches :
        dStatusRead[d] \in {"expired", "revoked"}
        => /\ dPc[d] = "done"
           /\ dResult[d] = IF dStatusRead[d] = "expired"
                           THEN "CONNECTION_EXPIRED" ELSE "CONNECTION_REVOKED"
           /\ dRefreshCalls[d] = 0
           /\ dAdapterCalls[d] = 0

\* The dispatch d writes the connection row / hands its event to the webhook
\* dispatcher in this step.
WritesFailure(d) == dPc[d] = "markExpired" /\ dPc'[d] # "markExpired"
RaisesEvent(d) == dPc[d] = "triggerWebhook" /\ dPc'[d] = "done"

EventOf(d, type) ==
    \E e \in webhook_events' : e.by = d /\ e.type = type
                               /\ e.connectionId = dConn[d]

\* C5: a refresh answered with invalid_grant sets the connection's status
\* to revoked and queues a connection.revoked event.
C5_InvalidGrantRevokes ==
    [][\A d \in Dispatches :
         dError[d] = "invalid_grant" =>
           /\ WritesFailure(d) => provider_connections'[dConn[d]].status = "revoked"
           /\ RaisesEvent(d) => EventOf(d, "connection.revoked")]_vars

\* C6: a refresh that fails with a transient error leaves the connection
\* row as it is, emits no webhook event, and the caller receives
\* PROVIDER_ERROR.
C6_TransientLeavesConnection ==
    [][\A d \in Dispatches :
         (dError[d] = "transient" /\ dPc'[d] # dPc[d]) =>
           /\ provider_connections' = provider_connections
           /\ webhook_events' = webhook_events
           /\ dPc'[d] = "done" => dResult'[d] = "PROVIDER_ERROR"]_vars

\* C7: a refresh that fails with another 4xx sets the connection's status
\* to error, with a message, and emits connection.error.
C7_Other4xxMarksError ==
    [][\A d \in Dispatches :
         dError[d] = "other_4xx" =>
           /\ WritesFailure(d) =>
                /\ provider_connections'[dConn[d]].status = "error"
                /\ provider_connections'[dConn[d]].error_message # "none"
           /\ RaisesEvent(d) => EventOf(d, "connection.error")]_vars

\* The client signed <timestamp> "." <raw body bytes> with the key's secret.
ClientSignedRawBody(r) ==
    r.signature = Hmac(SecretOf(r.publicKey), Payload(r.timestamp, r.rawBody))

\* An unsigned decimal number of seconds within the window of clock n.
FreshTimestamp(n, ts) ==
    IsUnsignedDecimal(ts) /\ Abs(n - ts.digits) <= TIMESTAMP_WINDOW

\* C8: a request that reached the signature check with an active key and a
\* fresh timestamp, signed by the client over the raw body bytes, is
\* accepted, and the payload the verifier recomputed is made of exactly
\* those raw bytes.
C8_RawBodyIsVerified ==
    ( /\ authPc \in {"accepted", "rejected", "no_response"}
      /\ authErr # "INVALID_API_KEY"
      /\ ClientSignedRawBody(req)
      /\ FreshTimestamp(nowLocal, req.timestamp) )
    => /\ authPc = "accepted"
       /\ payload = Payload(req.timestamp, req.rawBody)

\* C9: every accepted request carries an unsigned decimal timestamp within
\* 300 seconds of the verifier's clock.
C9_AcceptedTimestampIsFresh ==
    authPc = "accepted" => FreshTimestamp(nowLocal, req.timestamp)

KeyIsActive(pk) ==
    pk \in DOMAIN project_api_keys /\ project_api_keys[pk].status = "active"

SignedAsExpected(r) ==
    \E b \in {r.rawBody, JSONStringify(ExpressJson(r.rawBody))} :
        r.signature = Hmac(SecretOf(r.publicKey), Payload(r.timestamp, b))

\* C11: a request with an active key and a fresh timestamp whose signature
\* is not the expected HMAC, whatever its length, is rejected with
\* INVALID_SIGNATURE and HTTP 401.
C11_WrongSignatureIsInvalidSignature ==
    ( /\ authPc \in {"accepted", "rejected", "no_response"}
      /\ authErr # "INVALID_API_KEY"
      /\ FreshTimestamp(nowLocal, req.timestamp)
      /\ ~SignedAsExpected(req) )
    => /\ authPc = "rejected"
       /\ authErr = "INVALID_SIGNATURE"
       /\ statusCode(authErr) = 401

\* C12: a request that ends rejected leaves last_used_at of every key as it
\* was when the request arrived.
C12_RejectedLeavesLastUsedAt ==
    authPc = "rejected" =>
        \A pk \in PublicKeys :
            project_api_keys[pk].last_used_at = lastUsedBefore[pk]

\* C13: a dispatch by a project that does not own the connection it names
\* ends with CONNECTION_NOT_FOUND, and no token was read or refreshed and no
\* adapter verb invoked for it.
C13_ForeignConnectionNotFound ==
    \A d \in Dispatches :
        (dPc[d] # "start" /\ TripleProject(dConn[d]) # dProject[d])
        => /\ dPc[d] = "done"
           /\ dResult[d] = "CONNECTION_NOT_FOUND"
           /\ dStatusRead[d] = "none"
           /\ dRefreshCalls[d] = 0
           /\ dAdapterCalls[d] = 0

\* C14: a request to an endpoint other than /oauth/callback and /health
\* that carries none of the three authentication headers is answered with
\* 401.
C14_UnauthenticatedIs401 ==
    ( /\ appPc = "responded"
      /\ appReq.path \notin {"/oauth/callback", "/health"}
      /\ appReq.headers = {} )
    => appRes.status = 401

\* The subscription belongs to the project that owns the event's connection,
\* is enabled, and lists the event's type.
Matches(w, cid, type) ==
    /\ webhooks[w].project_id = TripleProject(cid)
    /\ webhooks[w].is_enabled
    /\ type \in webhooks[w].events

Attempted(e, w) == deliveries'[<<e, w>>].attempts > deliveries[<<e, w>>].attempts

RECURSIVE FailedUpTo(_, _)
\* The failed attempts made to subscription w for the events 1..n.
FailedUpTo(w, n) ==
    IF n = 0 THEN 0
    ELSE FailedUpTo(w, n - 1) + deliveries[<<n, w>>].attempts
           - (IF deliveries[<<n, w>>].acked THEN 1 ELSE 0)

FailedAttempts(w) == FailedUpTo(w, NEvents)

Pending(e, w) == deliveries[<<e, w>>].status = "pending"

\* The dispatcher has nothing left to do: no emitter is between writing and
\* queueing its rows, and no queued row can be attempted.
Quiescent ==
    /\ \A e \in EventIds : hookEvents[e].pc # "persisted"
    /\ \A ew \in webhookQueue :
          ~( /\ deliveries[ew].status = "pending"
             /\ deliveries[ew].attempts < MAX_ATTEMPTS
             /\ webhooks[ew[2]].is_enabled )

\* Every row is delivered or out of attempts, or waits for a subscription
\* that has been disabled.
Settled ==
    \A e \in EventIds, w \in Subscriptions :
        Pending(e, w) => ~webhooks[w].is_enabled

AdmittedInLastMinute(p) ==
    admitted[p].current
        + (IF now - RATE_TICK > now - 60 THEN admitted[p].previous ELSE 0)

\* C19: in no one-minute window are more than 60 requests of a project let
\* through, and a project that sends no more than 60 requests is never
\* answered RATE_LIMITED, whatever the other project sends.
C19_SixtyPerMinute ==
    /\ \A p \in Projects : AdmittedInLastMinute(p) <= 60
    /\ sent <= 60 => ~rejected["proj_Q"]

ConnectionWriters(tok) ==
    {c \in Callbacks :
        cbState[c] = tok /\ (cbPc[c] = "markStateUsed" \/ cbResult[c] = "success")}

\* C21: the store holds one connection row per (project, provider,
\* end-user) triple (provider_connections is keyed by the triple, as the
\* UNIQUE constraint has it), and each consumed state produces at most one
\* write of a connection row.
C21_OneWritePerConsumedState ==
    \A tok \in StateTokens :
        /\ Cardinality(ConnectionWriters(tok)) <= 1
        /\ ConnectionWriters(tok) # {} => oauth_states[tok].used_at # -1

\* A callback with state tok arrives in this step.
Arrives(c, tok) == cbPc[c] = "start" /\ cbPc'[c] # "start" /\ cbState'[c] = tok

\* C22a: a callback that arrives at or after the expiry of its state row is
\* answered INVALID_STATE and leaves the row as it was.
C22_ExpiredIsRejected ==
    \A c \in Callbacks, tok \in StateTokens :
        (Arrives(c, tok) /\ oauth_states[tok].exists
           /\ now >= oauth_states[tok].expires_at)
          => /\ cbResult'[c] = "INVALID_STATE"
             /\ oauth_states' = oauth_states

\* C22b: a state row is consumed only while its expires_at is strictly in
\* the future.
C22_ConsumedBeforeExpiry ==
    \A tok \in StateTokens :
        (oauth_states[tok].used_at = -1 /\ oauth_states'[tok].used_at # -1)
          => now < oauth_states[tok].expires_at

\* C22c: expires_at is at most 10 minutes after the creation of the row,
\* and no callback succeeds later than that.
C22_NoLateSuccess ==
    /\ \A tok \in StateTokens :
          (~oauth_states[tok].exists /\ oauth_states'[tok].exists)
            => oauth_states'[tok].expires_at <= now + 600
    /\ \A c \in Callbacks :
          (cbResult[c] # "success" /\ cbResult'[c] = "success")
            => now <= oauth_states[cbState[c]].expires_at

\* C22: a state token is consumed only while unused and unexpired, within
\* 10 minutes of its creation; a callback arriving at or after expires_at
\* gets INVALID_STATE and leaves the row unconsumed.
C22_StateExpiry ==
    [][C22_ExpiredIsRejected /\ C22_ConsumedBeforeExpiry
         /\ C22_NoLateSuccess]_vars

\* A callback writes the connection row of t in this step (user connects
\* or re-connects).
CallbackWrites(t) ==
    \E c \in Callbacks :
        /\ cbPc[c] = "createConnection"
        /\ cbPc'[c] # "createConnection"
        /\ stateRecord[c].triple = t

\* The edges of the connection status machine, from status a to status b.
StatusEdge(t, a, b) ==
    \/ b = "revoked"
    \/ a = "active" /\ b \in {"expired", "error"}
    \/ a \in {"absent", "active", "error", "expired"} /\ b = "active"
          /\ CallbackWrites(t)

\* C23: the status of a connection changes only along the edges of the
\* state machine; in particular a refresh never moves an expired, revoked
\* or error connection back to active, and revoked is never left.
C23_StatusMachine ==
    [][\A t \in Triples :
          provider_connections'[t].status # provider_connections[t].status
            => StatusEdge(t, provider_connections[t].status,
                          provider_connections'[t].status)]_vars

\* Project p has deleted connection t.
Deleted(p, t) == deleteRes[p] = [conn |-> t, code |-> "deleted"]

\* C24: a delete by the owning project leaves the row in the store with
\* status revoked, and every dispatch that then reads the connection ends
\* with CONNECTION_REVOKED; a delete by another project changes nothing.
C24_DeleteRevokes ==
    /\ \A p \in Projects, t \in Triples :
          Deleted(p, t) => /\ TripleProject(t) = p
                           /\ provider_connections[t].status # "absent"
    /\ \A d \in Dispatches :
          (dPc[d] = "done" /\ dConn[d] \in Triples
             /\ Deleted(TripleProject(dConn[d]), dConn[d])
             /\ dStatusRead[d] = "revoked")
            => dResult[d] = "CONNECTION_REVOKED"

\* C25a: decrypt of an unaltered stored value returns the plaintext that
\* was encrypted.
C25_RoundTrip ==
    (decrypted.done /\ heldFrom.part = 0)
      => /\ decrypted.ok
         /\ decrypted.text = stored[heldFrom.index].plaintext

\* C25b: two encryptions yield different stored values.
C25_DistinctValues ==
    \A i, j \in 1..Len(stored) : i # j => stored[i].value # stored[j].value

\* C25c: decrypt of a stored value with an altered part fails.
C25_AlteredFails ==
    (decrypted.done /\ heldFrom.part # 0) => ~decrypted.ok

\* C25: decrypt(encrypt(x)) = x for every plaintext, two encryptions of a
\* plaintext differ, and decrypt of a stored value whose IV, tag or
\* ciphertext part was altered fails.
C25_EncryptDecrypt ==
    C25_RoundTrip /\ C25_DistinctValues /\ C25_AlteredFails

\* C26: whatever key version a stored value was written under, and however
\* far the migration has come, decrypt returns its plaintext.
C26_ReadableAcrossRotation ==
    decrypted.done
      => LET row == stored[heldFrom.index]
         IN /\ row.version <= keyVersion
            /\ decrypted.ok
            /\ decrypted.text = row.plaintext

\* The required settings of environment e are present and well-formed.
RequiredSettingsValid(e) ==
    /\ e.PORT # Undefined /\ IsNumeric(e.PORT)
    /\ e.SUPABASE_URL # Undefined /\ IsUrl(e.SUPABASE_URL)
    /\ e.SUPABASE_SERVICE_KEY # Undefined /\ Length(e.SUPABASE_SERVICE_KEY) > 0
    /\ e.ENCRYPTION_KEY # Undefined /\ Length(e.ENCRYPTION_KEY) = 64
         /\ IsHex(e.ENCRYPTION_KEY)
    /\ e.API_BASE_URL # Undefined /\ IsUrl(e.API_BASE_URL)
    /\ e.OAUTH_CALLBACK_URL # Undefined /\ IsUrl(e.OAUTH_CALLBACK_URL)
    /\ e.GOOGLE_CLIENT_ID # Undefined /\ Length(e.GOOGLE_CLIENT_ID) > 0
    /\ e.GOOGLE_CLIENT_SECRET # Undefined /\ Length(e.GOOGLE_CLIENT_SECRET) > 0

\* C27: the process exports its configuration and serves only when every
\* required setting is present and well-formed; otherwise the start ends
\* with the failure exit and no configuration object.
C27_StartsOnlyWithValidEnv ==
    (cfgPc # "init" /\ ~RequiredSettingsValid(env))
      => cfgPc = "exited" /\ config = NoConfig

\* The HTTP status fixed for each error kind.
StatusOfKind(code) ==
    CASE code \in {"INVALID_API_KEY", "INVALID_SIGNATURE", "TIMESTAMP_EXPIRED",
                   "CONNECTION_EXPIRED", "CONNECTION_REVOKED"} -> 401
      [] code \in {"INVALID_STATE", "VALIDATION_ERROR"} -> 400
      [] code \in {"CONNECTION_NOT_FOUND", "NOT_FOUND"} -> 404
      [] code \in {"SCOPE_INSUFFICIENT", "FORBIDDEN"} -> 403
      [] code = "PROVIDER_ERROR" -> 502
      [] code = "RATE_LIMITED" -> 429
      [] OTHER -> 500

\* C28: every error response has success = false, a meta.requestId and the
\* status of its error kind; an error of no such kind is INTERNAL_ERROR, 500.
C28_ErrorEnvelope ==
    errRes # NoErrorResponse
      => /\ ~errRes.success
         /\ errRes.requestId
         /\ errRes.code \in ErrorCodes \cup {"INTERNAL_ERROR"}
         /\ errRes.status = StatusOfKind(errRes.code)

\* C29: the timestamp is checked first: the first check made on a request
\* whose timestamp is stale rejects it with TIMESTAMP_EXPIRED, whatever its
\* public key and signature are, and no key row is read or written for it.
C29_TimestampCheckedFirst ==
    [][(authPc = "verifyApiKey" /\ authPc' # "verifyApiKey"
        /\ TimestampTooOld(now, req.timestamp))
       => /\ authPc' = "rejected"
          /\ authErr' = "TIMESTAMP_EXPIRED"
          /\ project_api_keys' = project_api_keys]_vars

\* The dispatch d writes the refreshed tokens in this step.
WritesTokens(d) == dPc[d] = "updateTokens" /\ dPc'[d] # "updateTokens"

\* C30: the write that ends a successful refresh stores the provider's new
\* access token and expiry, the rotated refresh token if one was issued and
\* otherwise leaves the stored refresh token as it is, sets status active,
\* and the caller is handed the stored access token.
C30_RefreshStoresNewTokens ==
    [][\A d \in Dispatches :
          WritesTokens(d) =>
            LET before == provider_connections[dConn[d]]
                after == provider_connections'[dConn[d]]
            IN /\ after.access_token = encryptToken(dTokens[d].accessToken)
               /\ after.expires_at = now + dTokens[d].expiresIn
               /\ after.refresh_token =
                     IF dTokens[d].refreshToken # NoToken
                     THEN encryptToken(dTokens[d].refreshToken)
                     ELSE before.refresh_token
               /\ after.status = "active"
               /\ dTokens'[d].accessToken = decryptToken(after.access_token)]_vars

\* C31: getValidToken on an active connection returns the stored token
\* without a provider call exactly when expires_at is null or more than 60
\* seconds after the current time, and enters the refresh path exactly when
\* expires_at is set and at most 60 seconds ahead.  (Stated for the rows
\* whose token columns decrypt; the NULL refresh token is C32's case.)
C31_SkewBufferIsSixtySeconds ==
    [][\A d \in Dispatches :
         LET row == provider_connections[dConn[d]]
             beyond == row.expires_at = 0 \/ row.expires_at > now + 60
         IN (dPc[d] = "getValidToken" /\ dPc'[d] # "getValidToken"
               /\ row.status = "active" /\ ~decryptThrows(row.refresh_token))
            => /\ (/\ dPc'[d] = "adapter"
                   /\ dRefreshCalls'[d] = dRefreshCalls[d]
                   /\ dTokens'[d].accessToken = decryptToken(row.access_token))
                  <=> beyond
               /\ dPc'[d] = "refreshing" <=> ~beyond]_vars

\* C32: for an active connection without a refresh token whose expires_at
\* is null or beyond the refresh buffer, getValidToken returns the stored
\* access token, without an error and without a provider call.
C32_NoRefreshTokenIsNoError ==
    [][\A d \in Dispatches :
         LET row == provider_connections[dConn[d]]
         IN (dPc[d] = "getValidToken" /\ dPc'[d] # "getValidToken"
               /\ row.status = "active" /\ row.refresh_token = NullColumn
               /\ ~isExpired(row))
            => /\ dPc'[d] = "adapter"
               /\ dResult'[d] = "none"
               /\ dTokens'[d].accessToken = decryptToken(row.access_token)
               /\ dRefreshCalls'[d] = dRefreshCalls[d]]_vars

\* The adapter's verb of dispatch d was invoked and failed.
VerbFailed(d) == dCall[d].status \notin {0, 200}

LogRowsOf(d) == {row \in api_logs : row.by = d}

\* C34: a dispatch that has invoked the adapter and has ended has written
\* no API-log row but the one of its outcome: a success row if the verb
\* succeeded, a row with the normalized error otherwise, exactly one unless
\* the write of that row was itself rejected; and a dispatch whose verb
\* succeeded is reported to its caller as a success.
C34_OneLogRowPerDispatch ==
    \A d \in Dispatches :
        (dPc[d] = "done" /\ dAdapterCalls[d] > 0)
        => LET outcome == IF dCall[d].status = 200 THEN "success"
                          ELSE normalizeError(dCall[d].status)
               row == ApiLogRow(d, IF dCall[d].status = 200 THEN "success"
                                   ELSE "error",
                                IF dCall[d].status = 200 THEN "none" ELSE outcome)
           IN /\ LogRowsOf(d) \subseteq {row}
              /\ dResult[d] = outcome => LogRowsOf(d) = {row}
              /\ dCall[d].status = 200 => dResult[d] = "success"

\* C35: once the process serves requests the adapter registry does not
\* change, so a lookup returns the adapter registered for the name at
\* initialization, and a lookup of an unregistered name raises the
\* not-found error instead of returning an absent value.
C35_RegistryIsReadOnly ==
    [][Serving =>
         /\ adapters' = adapters
         /\ ProviderRegistry_list = 1..Len(Registrations)
         /\ \A i \in DOMAIN lookups' :
              LET l == lookups'[i]
              IN IF \E k \in DOMAIN Registrations : Registrations[k] = l.name
                 THEN l.found /\ Registrations[l.adapter] = l.name
                 ELSE ~l.found]_vars

\* Requests have looked up a registered name twice and an unregistered one.
C35_Witness ==
    /\ Serving
    /\ \E i, j, k \in DOMAIN lookups :
         /\ i < j
         /\ lookups[i].name = "slack" /\ lookups[j].name = "slack"
         /\ lookups[i].adapter = lookups[j].adapter /\ lookups[i].found
         /\ lookups[k].name = "outlook" /\ ~lookups[k].found

CreatedEventsOf(c) ==
    {e \in webhook_events : e.type = "connection.created" /\ e.by = c}

\* C37: a callback that has ended in a success redirect has emitted exactly
\* one connection.created event, for the connection it wrote and with that
\* row persisted; a callback that has ended in INVALID_STATE or in an error
\* redirect has emitted none.
C37_SuccessEmitsConnectionCreated ==
    \A c \in Callbacks :
        cbPc[c] = "done"
        => LET t == oauth_states[cbState[c]].triple
           IN IF cbResult[c] = "success"
              THEN /\ CreatedEventsOf(c) =
                        {[by |-> c,
                          project |-> lifecycleEvent(t, "connection.created").project,
                          type |-> "connection.created", connectionId |-> t]}
                   /\ provider_connections[t].status # "absent"
              ELSE CreatedEventsOf(c) = {}

C39_LoaderRunsOnce ==
    /\ \A name \in LazyNames : loaderCalls[name] <= 1
    /\ \A g1, g2 \in Getters :
         (/\ getPc[g1] = "returned" /\ getPc[g2] = "returned"
          /\ getName[g1] = getName[g2])
         => getAdapter[g1] = getAdapter[g2]

\* C40: whenever the environment validation has accepted the configuration,
\* ENCRYPTION_KEY decodes as hex to exactly 32 bytes, the size of an AES-256
\* key; a value of 64 characters that are not hex digits is rejected.
C40_AcceptedKeyIsAes256 ==
    cfgPc \in {"loaded", "serving"}
      => HexDecodedLength(config.encryption.key) = 32

====
